---- MODULE Spec2Model ----
(***************************************************************************)
(* The appointment engine of receptionist_ai: services/calendar.py over    *)
(* the SQLite tables of db/database.py.                                    *)
(*                                                                         *)
(* Strings keep the shape the code gives them: a date is the text          *)
(* 'YYYY-MM-DD', a time is the text 'HH:MM', and a slot id is modelled by  *)
(* the list of its '_'-separated parts (what str.split('_') returns).      *)
(* The clock `now` counts minutes from 2025-01-06 00:00 (a Monday).        *)
(***************************************************************************)
EXTENDS Integers, Sequences, FiniteSets, TLC

VARIABLES
    appointments,   \* the appointments table, rows in insertion order; a row's id is its index
    now,            \* datetime.now(), minutes since day 0, 00:00
    config,         \* the business config handed to the calls (hours, services)
    ret,            \* what the most recent call returned
    trail,          \* history: the last check_availability and what was done with its slot
    matcher_calls,  \* freed slots handed to WaitlistRepository.find_waiting_for_service_and_date
    pc,             \* concurrent bookers: position of each request inside book_appointment
    req,            \* concurrent bookers: the arguments of each request
    conc_ret,       \* concurrent bookers: what each request returned
    waitlist,       \* the waitlist table, rows in insertion order; a row's id is its index
    notifications,  \* the waitlist_notifications table, rows in insertion order
    customers,      \* the customers table, rows in insertion order; a row's id is its index
    txn,            \* the uncommitted writes of each request's connection
    users,          \* the users table, rows in insertion order
    businesses,     \* the businesses table, rows in insertion order
    toolkit,        \* the ReceptionistToolkit the agent cache holds for business b1
    recorded_by,    \* history: the chat session that recorded each toolkit field
    loop            \* the position of a check_availability call run loop by loop

vars == <<appointments, now, config, ret, trail, matcher_calls, pc, req, conc_ret,
          waitlist, notifications, customers, txn, users, businesses, toolkit,
          recorded_by, loop>>

----------------------------------------------------------------------------
(* Bounds of the model *)

MaxAppts == 2       \* rows the appointments table may hold
MaxTicks == 1       \* half hours the clock may advance past StartOfClock
MaxDay == 1         \* the last day the clock may reach

NULL == "NULL"      \* Python None, SQL NULL

MinutesPerDay == 1440
SlotStep == 30
DefaultDuration == 60
SlotLimit == 20
StartOfClock == 17 * SlotStep   \* the first instant of the model: day 0, 08:30

----------------------------------------------------------------------------
(* Text forms: strftime / strptime *)

Pad2(n) == IF n < 10 THEN "0" \o ToString(n) ELSE ToString(n)

\* strftime('%H:%M') of a time of day in minutes
TimeStr(m) == Pad2(m \div 60) \o ":" \o Pad2(m % 60)

\* the times of day the model writes as text
HalfHours == {SlotStep * k : k \in 0..47}

TimeTable == [m \in HalfHours |-> TimeStr(m)]

\* strptime(s, '%H:%M') as minutes; -1 stands for ValueError
ParseTime(s) ==
    IF \E m \in HalfHours : TimeTable[m] = s
    THEN CHOOSE m \in HalfHours : TimeTable[m] = s
    ELSE -1

\* the days the model writes as text: day d is 2025-01-(06+d)
Days == 0..25

\* strftime('%Y-%m-%d') of a day
DateStr(d) == "2025-01-" \o Pad2(6 + d)

DateTable == [d \in Days |-> DateStr(d)]

\* strptime(s, '%Y-%m-%d') as a day; -1 stands for ValueError
ParseDate(s) ==
    IF \E d \in Days : DateTable[d] = s
    THEN CHOOSE d \in Days : DateTable[d] = s
    ELSE -1

\* SQLite compares the TEXT columns date and time byte-wise.  Well-formed
\* dates (times) order as their days (minutes); the malformed texts of the
\* model start with a letter and so sort after every well-formed one.
DateKey(s) == IF ParseDate(s) >= 0 THEN ParseDate(s) ELSE 1000

TimeKey(s) == IF ParseTime(s) >= 0 THEN ParseTime(s) ELSE 10000

DayNames == <<"monday", "tuesday", "wednesday", "thursday", "friday", "saturday", "sunday">>

\* strftime('%A').lower() of a day; day 0 is a Monday
DayName(d) == DayNames[(d % 7) + 1]

Max(a, b) == IF a >= b THEN a ELSE b

Min(a, b) == IF a <= b THEN a ELSE b

Today(t) == t \div MinutesPerDay

TimeOfDay(t) == t % MinutesPerDay

----------------------------------------------------------------------------
(* The collaborators the engine reads: staff directory, business config *)

Businesses == {"b1", "b2"}

\* the staff table (read only here): b1 has two active staff who offer every
\* service, b2 has none
staff_rows == <<
    [id |-> "s1", business_id |-> "b1", services_offered |-> {}, is_active |-> TRUE],
    [id |-> "s2", business_id |-> "b1", services_offered |-> {}, is_active |-> TRUE] >>

Hours(o, c) == [closed |-> FALSE, open |-> o, close |-> c]

Closed == [closed |-> TRUE, open |-> NULL, close |-> NULL]

WeekOf(mon, tue) ==
    [d \in {"monday", "tuesday", "wednesday", "thursday", "friday", "saturday", "sunday"} |->
        IF d = "monday" THEN mon ELSE IF d = "tuesday" THEN tue ELSE Closed]

Service(id, name, minutes) == [id |-> id, name |-> name, duration_minutes |-> minutes]

\* the business configurations of the model: hours on the hour, hours that
\* open at half past, a service of no duration
HourlyConfig ==
    [hours |-> WeekOf(Hours("09:00", "11:00"), Hours("09:00", "11:00")),
     services |-> <<Service("haircut", "Haircut", 60)>>]

HalfPastConfig ==
    [hours |-> WeekOf(Hours("09:30", "11:00"), Closed),
     services |-> <<Service("haircut", "Haircut", 60)>>]

NoDurationConfig ==
    [hours |-> WeekOf(Hours("09:00", "10:00"), Hours("09:00", "10:00")),
     services |-> <<Service("haircut", "Haircut", 0)>>]

Configs == {HourlyConfig, HalfPastConfig, NoDurationConfig}

\* name.lower().replace(' ', '_') for the service names of the model
NormalizedName(name) == IF name = "Haircut" THEN "haircut" ELSE name

RECURSIVE FindService(_, _, _)
\* the loop over config['services'] of check_availability and book_appointment:
\* the index of the first service whose id or normalized name is service_id, or 0
FindService(services, i, service_id) ==
    IF i > Len(services) THEN 0
    ELSE IF services[i].id = service_id \/ NormalizedName(services[i].name) = service_id
         THEN i
         ELSE FindService(services, i + 1, service_id)

ServiceDuration(cfg, service_id) ==
    LET i == FindService(cfg.services, 1, service_id)
    IN  IF i = 0 THEN DefaultDuration ELSE cfg.services[i].duration_minutes

\* get_business_hours_for_day: <<>> (None) when closed, else <<open, close>>
get_business_hours_for_day(cfg, day_name) ==
    IF day_name \in DOMAIN cfg.hours
    THEN IF cfg.hours[day_name].closed THEN <<>>
         ELSE <<cfg.hours[day_name].open, cfg.hours[day_name].close>>
    ELSE <<"09:00", "18:00">>

----------------------------------------------------------------------------
(* parse_date_range, parse_time_preference *)

\* A date_range text is modelled by its parts around ' to '.
parse_date_range(date_range, t) ==
    LET today == Today(t)
        word == date_range[1]
    IN  IF Len(date_range) = 1 /\ word = "today" THEN <<today, today>>
        ELSE IF Len(date_range) = 1 /\ word = "tomorrow" THEN <<today + 1, today + 1>>
        ELSE IF Len(date_range) = 1 /\ word \in {"this week", "week"} THEN <<today, today + 7>>
        ELSE IF Len(date_range) = 1 /\ word = "next week" THEN <<today + 7, today + 14>>
        ELSE IF Len(date_range) = 1 /\ word \in {"this month", "month"} THEN <<today, today + 30>>
        ELSE IF Len(date_range) >= 2
             THEN IF ParseDate(date_range[1]) >= 0 /\ ParseDate(date_range[2]) >= 0
                  THEN <<ParseDate(date_range[1]), ParseDate(date_range[2])>>
                  ELSE <<today, today + 7>>
             ELSE IF ParseDate(word) >= 0
                  THEN <<ParseDate(word), ParseDate(word)>>
                  ELSE <<today, today + 7>>

\* What the tests of parse_time_preference see in a preference text:
\* whether 'after' / 'before' / 'pm' occur in it and the digits its regex
\* captures (-1: no match).
Lex(a, b, n, p) == [after |-> a, before |-> b, num |-> n, pm |-> p]

PrefLex(text) ==
    CASE text = "after 5"   -> Lex(TRUE, FALSE, 5, FALSE)
      [] text = "after 5pm" -> Lex(TRUE, FALSE, 5, TRUE)
      [] text = "after 10"  -> Lex(TRUE, FALSE, 10, FALSE)
      [] text = "after 24"  -> Lex(TRUE, FALSE, 24, FALSE)
      [] text = "after"     -> Lex(TRUE, FALSE, -1, FALSE)
      [] text = "before 10" -> Lex(FALSE, TRUE, 10, FALSE)
      [] OTHER              -> Lex(FALSE, FALSE, -1, FALSE)

parse_time_preference(time_pref) ==
    IF time_pref = NULL THEN <<9, 18>>
    ELSE IF time_pref \in {"morning", "am"} THEN <<9, 12>>
    ELSE IF time_pref = "afternoon" THEN <<12, 17>>
    ELSE IF time_pref \in {"evening", "late", "after 5pm", "after 5"} THEN <<17, 20>>
    ELSE LET l == PrefLex(time_pref)
             hour == IF l.pm /\ l.num < 12 THEN l.num + 12 ELSE l.num
         IN  IF l.after
             THEN IF l.num >= 0 THEN <<hour, 20>> ELSE <<9, 18>>
             ELSE IF l.before /\ l.num >= 0 THEN <<9, hour>>
             ELSE <<9, 18>>

----------------------------------------------------------------------------
(* generate_time_slots *)

\* a result of slot generation: the slots, or an exception escaping the call
Slots(s) == [raised |-> FALSE, slots |-> s]

Raised == [raised |-> TRUE, slots |-> <<>>]

RECURSIVE ConflictScan(_, _, _, _, _)
\* the for-loop over booked_slots for one candidate: "free", "taken", or
\* "raise" when strptime meets a booked time that is no 'HH:MM'
ConflictScan(booked, i, slot_start, slot_end, staff_id) ==
    IF i > Len(booked) THEN "free"
    ELSE LET b == booked[i]
         IN  IF staff_id # NULL /\ b.staff_id # NULL /\ staff_id # b.staff_id
             THEN ConflictScan(booked, i + 1, slot_start, slot_end, staff_id)
             ELSE IF ParseTime(b.time) < 0 THEN "raise"
             ELSE LET booked_start == ParseTime(b.time)
                      booked_end == booked_start + b.duration_minutes
                  IN  IF ~(slot_end <= booked_start \/ slot_start >= booked_end)
                      THEN "taken"
                      ELSE ConflictScan(booked, i + 1, slot_start, slot_end, staff_id)

\* a slot dict whose id names the time before the date
SlotTimeFirst(day, current_time, staff_id, duration_minutes) ==
    [id |-> <<TimeStr(current_time), DateStr(day), IF staff_id = NULL THEN "any" ELSE staff_id>>,
     date |-> DateStr(day),
     time |-> TimeStr(current_time),
     staff_id |-> staff_id,
     duration_minutes |-> duration_minutes]

\* the slot dict appended for an available candidate.  The id is the text
\* f"{date}_{time}_{staff_id or 'any'}", kept as the parts split('_') gives
\* back: a strftime date, a strftime time and a staff id (a uuid4 text) hold
\* no '_', so the parts are these three
Slot(day, current_time, staff_id, duration_minutes) ==
    [id |-> <<DateStr(day), TimeStr(current_time), IF staff_id = NULL THEN "any" ELSE staff_id>>,
     date |-> DateStr(day),
     time |-> TimeStr(current_time),
     staff_id |-> staff_id,
     duration_minutes |-> duration_minutes]

RECURSIVE SlotLoop(_, _, _, _, _, _, _)
\* the while-loop of generate_time_slots from current_time on
SlotLoop(current_time, end_time, day, duration_minutes, booked, staff_id, t) ==
    IF current_time + duration_minutes > end_time THEN Slots(<<>>)
    ELSE IF day = Today(t) /\ current_time <= TimeOfDay(t)
         THEN SlotLoop(current_time + SlotStep, end_time, day, duration_minutes, booked, staff_id, t)
    ELSE LET c == ConflictScan(booked, 1, current_time, current_time + duration_minutes, staff_id)
         IN  IF c = "raise" THEN Raised
             ELSE LET rest == SlotLoop(current_time + SlotStep, end_time, day,
                                       duration_minutes, booked, staff_id, t)
                  IN  IF rest.raised THEN Raised
                      ELSE IF c = "taken" THEN rest
                      ELSE Slots(<<Slot(day, current_time, staff_id, duration_minutes)>> \o rest.slots)

\* generate_time_slots: business_hours is <<open, close>>, time_start and
\* time_end are hours; replace(hour=h) raises ValueError unless 0 <= h <= 23
generate_time_slots(day, duration_minutes, business_hours, time_start, time_end, booked, staff_id, t) ==
    LET open_time == ParseTime(business_hours[1])
        close_time == ParseTime(business_hours[2])
        start_hour == Max(open_time \div 60, time_start)
        end_hour == Min(close_time \div 60, time_end)
    IN  IF open_time < 0 \/ close_time < 0 THEN Raised
        ELSE IF start_hour > 23 \/ end_hour > 23 \/ end_hour < 0 THEN Raised
        ELSE SlotLoop(start_hour * 60, end_hour * 60, day, duration_minutes, booked, staff_id, t)

----------------------------------------------------------------------------
(* check_availability *)

\* a filter that forgets 'cancelled' (cancelled rows would still block)
ActiveUnlessNoShow(row) == row.status # "no_show"

\* status NOT IN ('cancelled', 'no_show')
Active(row) == row.status \notin {"cancelled", "no_show"}

\* SELECT id FROM staff WHERE business_id = ? AND is_active = 1, kept when
\* services_offered is empty or holds service_id, then the staff_id filter,
\* then the 'any' stand-in
AvailableStaff(business_id, service_id, staff_id) ==
    LET Offers(r) == /\ r.business_id = business_id
                     /\ r.is_active
                     /\ (r.services_offered = {} \/ service_id \in r.services_offered)
        Wanted(r) == staff_id = NULL \/ r.id = staff_id
        rows == SelectSeq(SelectSeq(staff_rows, Offers), Wanted)
    IN  IF Len(rows) = 0 THEN <<NULL>> ELSE [i \in 1..Len(rows) |-> rows[i].id]

\* SELECT date, time, duration_minutes, staff_id FROM appointments WHERE
\* business_id = ? AND date >= ? AND date <= ? AND status NOT IN (...)
ExistingAppts(store, business_id, start_date, end_date) ==
    LET InRange(r) == /\ r.business_id = business_id
                      /\ DateKey(r.date) >= start_date
                      /\ DateKey(r.date) <= end_date
                      /\ Active(r)
    IN  SelectSeq(store, InRange)

\* booked_by_date.get(date_str, [])
BookedOn(existing, date_str) ==
    LET On(r) == r.date = date_str
    IN  SelectSeq(existing, On)

RECURSIVE StaffLoop(_, _, _, _, _, _, _, _, _)
\* for staff in available_staff: all_slots.extend(generate_time_slots(...))
StaffLoop(staff_ids, i, day, duration, business_hours, time_start, time_end, booked, t) ==
    IF i > Len(staff_ids) THEN Slots(<<>>)
    ELSE LET mine == generate_time_slots(day, duration, business_hours, time_start,
                                         time_end, booked, staff_ids[i], t)
             rest == StaffLoop(staff_ids, i + 1, day, duration, business_hours,
                               time_start, time_end, booked, t)
         IN  IF mine.raised \/ rest.raised THEN Raised
             ELSE Slots(mine.slots \o rest.slots)

RECURSIVE DayLoop(_, _, _, _, _, _, _, _, _)
\* while current_date <= end_date
DayLoop(day, end_date, cfg, staff_ids, duration, time_start, time_end, existing, t) ==
    IF day > end_date THEN Slots(<<>>)
    ELSE LET business_hours == get_business_hours_for_day(cfg, DayName(day))
             rest == DayLoop(day + 1, end_date, cfg, staff_ids, duration,
                             time_start, time_end, existing, t)
         IN  IF Len(business_hours) = 0 THEN rest
             ELSE LET mine == StaffLoop(staff_ids, 1, day, duration, business_hours,
                                        time_start, time_end, BookedOn(existing, DateStr(day)), t)
                  IN  IF mine.raised \/ rest.raised THEN Raised
                      ELSE Slots(mine.slots \o rest.slots)

\* check_availability against the table `store` at time t: the first
\* SlotLimit slots in (date, staff, time) order
check_availability(store, t, cfg, business_id, service_id, date_range, time_preference, staff_id) ==
    LET duration == ServiceDuration(cfg, service_id)
        staff_ids == AvailableStaff(business_id, service_id, staff_id)
        range == parse_date_range(date_range, t)
        pref == parse_time_preference(time_preference)
        existing == ExistingAppts(store, business_id, range[1], range[2])
        all_slots == DayLoop(range[1], range[2], cfg, staff_ids, duration,
                             pref[1], pref[2], existing, t)
    IN  IF all_slots.raised THEN Raised
        ELSE Slots(SubSeq(all_slots.slots, 1, Min(Len(all_slots.slots), SlotLimit)))

----------------------------------------------------------------------------
(* What the calls return, and the history the properties speak of *)

\* the dict a call returns: error is '' when the dict has no 'error' key
Ret(op, error, cancelled, id, found) ==
    [op |-> op, error |-> error, cancelled |-> cancelled, id |-> id,
     raised |-> found.raised, slots |-> found.slots]

NoRet == Ret("none", "", FALSE, 0, Slots(<<>>))

CheckArgs(business_id, service_id, date_range, time_preference, staff_id) ==
    [business_id |-> business_id, service_id |-> service_id, date_range |-> date_range,
     time_preference |-> time_preference, staff_id |-> staff_id]

\* phase: the last call of the sequence check, book, cancel that the calls
\* so far form; args, at: the arguments and the clock of its check; slot_id,
\* id: the slot booked and its appointment; prev, prev_at: the phase and the
\* clock of the sequence a repeated check (same arguments) continues
Trail(phase, args, at, slot_id, id, prev, prev_at) ==
    [phase |-> phase, args |-> args, at |-> at, slot_id |-> slot_id, id |-> id,
     prev |-> prev, prev_at |-> prev_at]

NoTrail == Trail("none", CheckArgs(NULL, NULL, <<>>, NULL, NULL), 0, <<>>, 0, "none", 0)

\* no check_availability call is being run loop by loop
NotRunning ==
    [pc |-> "idle", args |-> CheckArgs(NULL, NULL, <<>>, NULL, NULL), current_date |-> 0,
     end_date |-> 0, staff |-> 0, current_time |-> 0, end_time |-> 0, all_slots |-> <<>>]

SlotIds(slots) == {slots[i].id : i \in 1..Len(slots)}

----------------------------------------------------------------------------
(* book_appointment *)

\* slot_id.split('_'): parts[1] raises IndexError on fewer than two parts;
\* nothing checks that the parts are a date and a time
DecodeSlot(slot_id) ==
    IF Len(slot_id) < 2
    THEN [ok |-> FALSE, date |-> NULL, time |-> NULL, staff_id |-> NULL]
    ELSE [ok |-> TRUE, date |-> slot_id[1], time |-> slot_id[2],
          staff_id |-> IF Len(slot_id) > 2 /\ slot_id[3] # "any" THEN slot_id[3] ELSE NULL]

\* SELECT id FROM appointments WHERE business_id = ? AND date = ? AND time = ?
\* AND id != ? AND status NOT IN ('cancelled', 'no_show'); book passes no id (0)
SlotTaken(store, business_id, date, time, except_id) ==
    \E i \in 1..Len(store) :
        /\ store[i].business_id = business_id
        /\ store[i].date = date
        /\ store[i].time = time
        /\ store[i].id # except_id
        /\ Active(store[i])

\* the row INSERTed by book_appointment
NewRow(id, business_id, service_id, d, customer_id, customer_phone, duration) ==
    [id |-> id, business_id |-> business_id, service_id |-> service_id,
     staff_id |-> d.staff_id, customer_id |-> customer_id,
     customer_phone |-> customer_phone,
     date |-> d.date, time |-> d.time, duration_minutes |-> duration,
     status |-> "scheduled"]

\* the history after a booking: it follows a check_availability when the slot
\* id is one that check returned for the same business and service
TrailAfterBook(business_id, service_id, slot_id, id) ==
    IF /\ trail.phase = "checked"
       /\ trail.args.business_id = business_id
       /\ trail.args.service_id = service_id
       /\ slot_id \in SlotIds(ret.slots)
    THEN Trail("booked", trail.args, trail.at, slot_id, id, "none", 0)
    ELSE NoTrail

\* UPDATE customers SET visit_count = visit_count + 1, last_visit_date = ?,
\* favorite_service_id = ? WHERE id = ?; no row matches an unknown id
Visited(store, customer_id, date, service_id) ==
    [i \in 1..Len(store) |->
        IF store[i].id = customer_id
        THEN [store[i] EXCEPT !.visit_count = @ + 1, !.last_visit_date = date,
                              !.favorite_service_id = service_id]
        ELSE store[i]]

\* book_appointment with its optional customer_id (0 for None), which is
\* stored as passed and updates the customer only if it is given
BookCall(business_id, service_id, slot_id, customer_phone, customer_id) ==
    LET d == DecodeSlot(slot_id)
        id == Len(appointments) + 1
    IN  IF ~d.ok
        THEN /\ ret' = Ret("book", "Invalid slot ID", FALSE, 0, Slots(<<>>))
             /\ trail' = NoTrail
             /\ UNCHANGED <<appointments, customers>>
        ELSE IF SlotTaken(appointments, business_id, d.date, d.time, 0)
        THEN /\ ret' = Ret("book", "This time slot is no longer available", FALSE, 0, Slots(<<>>))
             /\ trail' = NoTrail
             /\ UNCHANGED <<appointments, customers>>
        ELSE /\ Len(appointments) < MaxAppts
             /\ appointments' = Append(appointments,
                    NewRow(id, business_id, service_id, d, customer_id, customer_phone,
                           ServiceDuration(config, service_id)))
             /\ customers' = IF customer_id # 0
                             THEN Visited(customers, customer_id, d.date, service_id)
                             ELSE customers
             /\ ret' = Ret("book", "", FALSE, id, Slots(<<>>))
             /\ trail' = TrailAfterBook(business_id, service_id, slot_id, id)

\* the call on its own: nothing else is touched
book_for_customer(business_id, service_id, slot_id, customer_phone, customer_id) ==
    /\ BookCall(business_id, service_id, slot_id, customer_phone, customer_id)
    /\ UNCHANGED <<now, config, matcher_calls, waitlist, notifications, txn, pc, req, conc_ret, users, businesses, toolkit, recorded_by, loop>>

\* the call of the booking toolkit, which passes no customer_id
book_appointment(business_id, service_id, slot_id, customer_phone) ==
    book_for_customer(business_id, service_id, slot_id, customer_phone, 0)

----------------------------------------------------------------------------
(* cancel_appointment *)

\* a SELECT by id that forgets the business_id condition
CancelCandidatesAnyBusiness(store, t, business_id, customer_phone, appointment_id) ==
    IF appointment_id # 0
    THEN {i \in 1..Len(store) :
            /\ store[i].id = appointment_id
            /\ store[i].status = "scheduled"}
    ELSE {i \in 1..Len(store) :
            /\ store[i].business_id = business_id
            /\ store[i].customer_phone = customer_phone
            /\ store[i].status = "scheduled"
            /\ DateKey(store[i].date) >= Today(t)}

\* the rows the SELECT of cancel_appointment matches; appointment_id 0 is None
CancelCandidates(store, t, business_id, customer_phone, appointment_id) ==
    IF appointment_id # 0
    THEN {i \in 1..Len(store) :
            /\ store[i].id = appointment_id
            /\ store[i].business_id = business_id
            /\ store[i].status = "scheduled"}
    ELSE {i \in 1..Len(store) :
            /\ store[i].business_id = business_id
            /\ store[i].customer_phone = customer_phone
            /\ store[i].status = "scheduled"
            /\ DateKey(store[i].date) >= Today(t)}

\* LIMIT 1 without the ORDER BY: the first row in table order; 0 when no row
FirstByRowid(store, rows) ==
    IF rows = {} THEN 0
    ELSE CHOOSE i \in rows : \A j \in rows : i <= j

\* ORDER BY date, time LIMIT 1 (rowid order among equals); 0 when no row
FirstByDateTime(store, rows) ==
    IF rows = {} THEN 0
    ELSE CHOOSE i \in rows : \A j \in rows :
            \/ DateKey(store[i].date) < DateKey(store[j].date)
            \/ /\ DateKey(store[i].date) = DateKey(store[j].date)
               /\ TimeKey(store[i].time) < TimeKey(store[j].time)
            \/ /\ DateKey(store[i].date) = DateKey(store[j].date)
               /\ TimeKey(store[i].time) = TimeKey(store[j].time)
               /\ i <= j

CancelTarget(store, t, business_id, customer_phone, appointment_id) ==
    FirstByDateTime(store, CancelCandidates(store, t, business_id, customer_phone, appointment_id))

TrailAfterCancel(id) ==
    IF trail.phase = "booked" /\ trail.id = id
    THEN Trail("cancelled", trail.args, trail.at, trail.slot_id, id, "none", 0)
    ELSE NoTrail

cancel_appointment(business_id, customer_phone, appointment_id) ==
    LET target == CancelTarget(appointments, now, business_id, customer_phone, appointment_id)
    IN  /\ IF target = 0
           THEN /\ ret' = Ret("cancel", "", FALSE, 0, Slots(<<>>))
                /\ trail' = NoTrail
                /\ UNCHANGED appointments
           ELSE /\ appointments' = [appointments EXCEPT ![target].status = "cancelled"]
                /\ ret' = Ret("cancel", "", TRUE, target, Slots(<<>>))
                /\ trail' = TrailAfterCancel(target)
        /\ UNCHANGED <<now, config, matcher_calls, waitlist, notifications, customers, txn, pc, req, conc_ret, users, businesses, toolkit, recorded_by, loop>>

----------------------------------------------------------------------------
(* reschedule_appointment *)

\* SELECT ... WHERE id = ? AND business_id = ? AND status = 'scheduled'; 0 when no row
RescheduleTarget(store, business_id, appointment_id) ==
    IF \E i \in 1..Len(store) :
          /\ store[i].id = appointment_id
          /\ store[i].business_id = business_id
          /\ store[i].status = "scheduled"
    THEN appointment_id
    ELSE 0

\* an UPDATE that sets staff_id = ? without the COALESCE
MovedStaffOverwritten(row, d) ==
    [row EXCEPT !.date = d.date, !.time = d.time, !.staff_id = d.staff_id]

\* UPDATE appointments SET date = ?, time = ?, staff_id = COALESCE(?, staff_id)
Moved(row, d) ==
    [row EXCEPT !.date = d.date, !.time = d.time,
                !.staff_id = IF d.staff_id # NULL THEN d.staff_id ELSE row.staff_id]

reschedule_appointment(business_id, appointment_id, new_slot_id) ==
    LET d == DecodeSlot(new_slot_id)
        target == RescheduleTarget(appointments, business_id, appointment_id)
    IN  /\ IF ~d.ok
           THEN /\ ret' = Ret("reschedule", "Invalid slot ID", FALSE, 0, Slots(<<>>))
                /\ UNCHANGED appointments
           ELSE IF target = 0
           THEN /\ ret' = Ret("reschedule", "Appointment not found or already cancelled",
                              FALSE, 0, Slots(<<>>))
                /\ UNCHANGED appointments
           ELSE IF SlotTaken(appointments, business_id, d.date, d.time, appointment_id)
           THEN /\ ret' = Ret("reschedule", "The new time slot is not available",
                              FALSE, 0, Slots(<<>>))
                /\ UNCHANGED appointments
           ELSE /\ appointments' = [appointments EXCEPT ![target] = Moved(@, d)]
                /\ ret' = Ret("reschedule", "", FALSE, target, Slots(<<>>))
        /\ trail' = NoTrail
        /\ UNCHANGED <<now, config, matcher_calls, waitlist, notifications, customers, txn, pc, req, conc_ret, users, businesses, toolkit, recorded_by, loop>>

----------------------------------------------------------------------------
(* The calls as steps of the system *)

\* the history after a check: a check with the arguments of the sequence so
\* far continues it, any other check starts a new one
TrailAfterCheck(args) ==
    IF trail.phase # "none" /\ trail.args = args
    THEN Trail("checked", args, now, trail.slot_id, trail.id, trail.phase, trail.at)
    ELSE Trail("checked", args, now, <<>>, 0, "none", 0)

\* a check that would place a hold on the first slot it returns
CheckAvailabilityHolding(business_id, service_id, date_range, time_preference, staff_id) ==
    LET found == check_availability(appointments, now, config, business_id, service_id,
                                    date_range, time_preference, staff_id)
    IN  /\ ret' = Ret("check", "", FALSE, 0, found)
        /\ trail' = TrailAfterCheck(CheckArgs(business_id, service_id, date_range,
                                              time_preference, staff_id))
        /\ appointments' =
               IF Len(found.slots) > 0 /\ Len(appointments) < MaxAppts
               THEN Append(appointments,
                           NewRow(Len(appointments) + 1, business_id, service_id,
                                  DecodeSlot(found.slots[1].id), 0, NULL,
                                  found.slots[1].duration_minutes))
               ELSE appointments
        /\ UNCHANGED <<now, config, matcher_calls, waitlist, notifications, customers, txn, pc, req, conc_ret, users, businesses, toolkit, recorded_by, loop>>

\* a call of check_availability: it only reads the tables
CheckAvailability(business_id, service_id, date_range, time_preference, staff_id) ==
    /\ ret' = Ret("check", "", FALSE, 0,
                  check_availability(appointments, now, config, business_id, service_id,
                                     date_range, time_preference, staff_id))
    /\ trail' = TrailAfterCheck(CheckArgs(business_id, service_id, date_range,
                                          time_preference, staff_id))
    /\ UNCHANGED <<appointments, now, config, matcher_calls, waitlist, notifications, customers, txn, pc, req, conc_ret, users, businesses, toolkit, recorded_by, loop>>

\* time passes between calls
Tick ==
    /\ now + SlotStep <= StartOfClock + MaxTicks * SlotStep
    /\ now' = now + SlotStep
    /\ UNCHANGED <<appointments, config, ret, trail, matcher_calls, waitlist, notifications, customers, txn, pc, req, conc_ret, users, businesses, toolkit, recorded_by, loop>>

Procs == {1, 2}

\* ReceptionistToolkit.__init__: nothing selected, nobody identified (0 and
\* <<>> stand for None)
NewToolkit == [selected_service_id |-> NULL, selected_slot_id |-> <<>>,
               current_customer_id |-> 0]

NobodyRecorded == [selected_service_id |-> "none", selected_slot_id |-> "none",
                   current_customer_id |-> "none"]

\* a connection with no statement executed since its last commit
NoWrites == [inserted |-> <<>>, visited |-> <<>>]

NoReq == [op |-> "none", business_id |-> NULL, service_id |-> NULL, slot_id |-> <<>>,
          customer_phone |-> NULL, customer_id |-> 0]

\* the clock reaches the next day (same time of day)
NextDay ==
    /\ Today(now) < MaxDay
    /\ now' = now + MinutesPerDay
    /\ UNCHANGED <<appointments, config, ret, trail, matcher_calls, waitlist, notifications, customers, txn, pc, req, conc_ret, users, businesses, toolkit, recorded_by, loop>>

\* the state after init_db: empty tables; the config is one of `configs`
InitWith(configs) ==
    /\ appointments = <<>>
    /\ now = StartOfClock
    /\ config \in configs
    /\ ret = NoRet
    /\ trail = NoTrail
    /\ matcher_calls = {}
    /\ pc = [p \in Procs |-> "idle"]
    /\ req = [p \in Procs |-> NoReq]
    /\ conc_ret = [p \in Procs |-> NoRet]
    /\ waitlist = <<>>
    /\ notifications = <<>>
    /\ customers = <<>>
    /\ txn = [p \in Procs |-> NoWrites]
    /\ users = <<>>
    /\ businesses = <<>>
    /\ toolkit = NewToolkit
    /\ recorded_by = NobodyRecorded
    /\ loop = NotRunning

----------------------------------------------------------------------------
(* The inputs of the model *)

SlotId(day, minutes, staff) == <<DateStr(day), TimeStr(minutes), staff>>

\* slot ids of business b1 (staff s1, s2) and of business b2 (no staff: 'any')
StaffSlotIds ==
    {SlotId(0, m, s) : m \in {540, 570}, s \in {"s1", "s2"}} \union {SlotId(1, 540, "s1")}

AnySlotIds == {SlotId(0, 540, "any")}

\* no '_' at all; and two parts that are neither a date nor a time
MalformedSlotIds == {<<"garbage">>, <<"soon", "noonish">>}

\* the booking requests of the model: <<business_id, slot_id, customer_phone>>
BookInputs ==
    ({"b1"} \X (StaffSlotIds \union MalformedSlotIds) \X {"p1"})
        \union ({"b2"} \X AnySlotIds \X {"p1"})

\* appointment ids a caller may name: 0 is None, MaxAppts + 1 is unknown
AppointmentIdInputs == 0..(MaxAppts + 1)

\* "p2" has no appointment
CancelInputs == Businesses \X {"p1", "p2"} \X AppointmentIdInputs

\* <<business_id, appointment_id, new_slot_id>>: appointments of b1 moved to
\* every slot id; an appointment named from another business; an unknown id
RescheduleInputs ==
    ({"b1"} \X (1..MaxAppts) \X (StaffSlotIds \union MalformedSlotIds))
        \union {<<"b2", 1, SlotId(0, 540, "any")>>,
                <<"b1", 1, SlotId(1, 570, "any")>>,
                <<"b1", MaxAppts + 1, SlotId(0, 540, "s1")>>}

Book ==
    \E i \in BookInputs : book_appointment(i[1], "haircut", i[2], i[3])

Cancel ==
    \E i \in CancelInputs : cancel_appointment(i[1], i[2], i[3])

Reschedule ==
    \E i \in RescheduleInputs : reschedule_appointment(i[1], i[2], i[3])

Init == InitWith({HourlyConfig})

Next == Book \/ Cancel \/ Reschedule \/ NextDay

Spec == Init /\ [][Next]_vars

----------------------------------------------------------------------------
(* Availability: check_availability between bookings and cancellations,   *)
(* under every configuration of the model, while the clock advances.       *)

\* <<business_id, date_range, time_preference, staff_id>>
CheckInputs ==
    {<<"b1", <<"today">>, NULL, NULL>>,
     <<"b1", <<"tomorrow">>, NULL, NULL>>,
     <<"b1", <<"2025-01-06", "2025-01-07">>, "after 10", NULL>>,
     <<"b1", <<"today">>, NULL, "s1">>,
     <<"b2", <<"today">>, NULL, NULL>>}

Check ==
    \E i \in CheckInputs : CheckAvailability(i[1], "haircut", i[2], i[3], i[4])

BookSlot ==
    \E i \in ({"b1"} \X StaffSlotIds) \union ({"b2"} \X AnySlotIds) :
        book_appointment(i[1], "haircut", i[2], "p1")

CancelById ==
    \E business_id \in Businesses, appointment_id \in 1..MaxAppts :
        cancel_appointment(business_id, "p1", appointment_id)

InitAvail == InitWith(Configs)

NextAvail == Check \/ BookSlot \/ CancelById \/ Tick \/ NextDay

SpecAvail == InitAvail /\ [][NextAvail]_vars

----------------------------------------------------------------------------
(* Concurrent bookers: each request runs book_appointment on a connection  *)
(* of its own.  The SELECT runs outside a transaction; the INSERT opens    *)
(* one, which the commit ends, so the two writes of a request are one step *)
(* and the SELECT is another.                                              *)

ConcInputs == {"b1"} \X {SlotId(0, 540, "s1"), SlotId(0, 540, "s2"), SlotId(0, 570, "s1"), <<"garbage">>}

\* a request arrives and its slot id is parsed
BookBegin(p, business_id, slot_id) ==
    /\ pc[p] = "idle"
    /\ req' = [req EXCEPT ![p] = [op |-> "book", business_id |-> business_id, service_id |-> "haircut",
                                  slot_id |-> slot_id, customer_phone |-> "p1",
                                  customer_id |-> 0]]
    /\ IF DecodeSlot(slot_id).ok
       THEN /\ pc' = [pc EXCEPT ![p] = "select"]
            /\ UNCHANGED conc_ret
       ELSE /\ pc' = [pc EXCEPT ![p] = "done"]
            /\ conc_ret' = [conc_ret EXCEPT ![p] = Ret("book", "Invalid slot ID", FALSE, 0, Slots(<<>>))]
    /\ UNCHANGED <<appointments, now, config, ret, trail, matcher_calls, waitlist, notifications, customers, txn, users, businesses, toolkit, recorded_by, loop>>

\* the availability SELECT of the request
BookSelect(p) ==
    /\ pc[p] = "select"
    /\ IF SlotTaken(appointments, req[p].business_id,
                    DecodeSlot(req[p].slot_id).date, DecodeSlot(req[p].slot_id).time, 0)
       THEN /\ pc' = [pc EXCEPT ![p] = "done"]
            /\ conc_ret' = [conc_ret EXCEPT ![p] =
                   Ret("book", "This time slot is no longer available", FALSE, 0, Slots(<<>>))]
       ELSE /\ pc' = [pc EXCEPT ![p] = "insert"]
            /\ UNCHANGED conc_ret
    /\ UNCHANGED <<appointments, now, config, ret, trail, matcher_calls, waitlist, notifications, customers, txn, req, users, businesses, toolkit, recorded_by, loop>>

\* the INSERT and the commit of the request
BookInsert(p) ==
    /\ pc[p] = "insert"
    /\ Len(appointments) < MaxAppts
    /\ appointments' = Append(appointments,
           NewRow(Len(appointments) + 1, req[p].business_id, req[p].service_id,
                  DecodeSlot(req[p].slot_id), req[p].customer_id, req[p].customer_phone,
                  ServiceDuration(config, req[p].service_id)))
    /\ pc' = [pc EXCEPT ![p] = "done"]
    /\ conc_ret' = [conc_ret EXCEPT ![p] = Ret("book", "", FALSE, Len(appointments) + 1, Slots(<<>>))]
    /\ UNCHANGED <<now, config, ret, trail, matcher_calls, waitlist, notifications, customers, txn, req, users, businesses, toolkit, recorded_by, loop>>

Begin == \E p \in Procs, i \in ConcInputs : BookBegin(p, i[1], i[2])

Select == \E p \in Procs : BookSelect(p)

Insert == \E p \in Procs : BookInsert(p)

\* a finished request makes room for the next one
Return ==
    \E p \in Procs :
        /\ pc[p] = "done"
        /\ pc' = [pc EXCEPT ![p] = "idle"]
        /\ req' = [req EXCEPT ![p] = NoReq]
        /\ conc_ret' = [conc_ret EXCEPT ![p] = NoRet]
        /\ UNCHANGED <<appointments, now, config, ret, trail, matcher_calls, waitlist, notifications, customers, txn, users, businesses, toolkit, recorded_by, loop>>

NextConc == Begin \/ Select \/ Insert \/ Return

SpecConc == Init /\ [][NextConc]_vars

----------------------------------------------------------------------------
(* Properties of the appointment engine *)

\* the half-open interval [RowStart, RowEnd) of an appointment, in minutes
RowStart(row) == ParseTime(row.time)

RowEnd(row) == ParseTime(row.time) + row.duration_minutes

Overlapping(a, b) == RowStart(a) < RowEnd(b) /\ RowStart(b) < RowEnd(a)

\* a slot id that decodes to (date YYYY-MM-DD, time HH:MM, staff id or 'any')
WellFormed(slot_id) ==
    /\ Len(slot_id) = 3
    /\ ParseDate(slot_id[1]) >= 0
    /\ ParseTime(slot_id[2]) >= 0

\* C1: after any sequence of Book, Reschedule and Cancel calls, no two
\* appointments of one business that share a staff member and a date and
\* whose status is scheduled or confirmed have overlapping half-open
\* intervals [start, start + duration).
C1_NoOverlappingAppointments ==
    \A i, j \in 1..Len(appointments) :
        ( /\ i < j
          /\ appointments[i].business_id = appointments[j].business_id
          /\ appointments[i].staff_id # NULL
          /\ appointments[i].staff_id = appointments[j].staff_id
          /\ appointments[i].date = appointments[j].date
          /\ appointments[i].status \in {"scheduled", "confirmed"}
          /\ appointments[j].status \in {"scheduled", "confirmed"}
          /\ RowStart(appointments[i]) >= 0
          /\ RowStart(appointments[j]) >= 0 )
        => ~Overlapping(appointments[i], appointments[j])

\* C2: when two Book calls for the same business and the same slot id run
\* concurrently, their SELECTs and INSERTs interleaved in any order, they do
\* not both return a confirmation (the one that does not gets the slot-taken
\* error), and the table never holds two active appointments for that slot.
C2_OneBookerWins ==
    /\ \A p, q \in Procs :
        ( /\ p # q
          /\ pc[p] = "done" /\ pc[q] = "done"
          /\ req[p].business_id = req[q].business_id
          /\ req[p].slot_id = req[q].slot_id
          /\ WellFormed(req[p].slot_id) )
        => /\ ~(conc_ret[p].error = "" /\ conc_ret[q].error = "")
           /\ conc_ret[p].error \in {"", "This time slot is no longer available"}
           /\ conc_ret[q].error \in {"", "This time slot is no longer available"}
    /\ \A i, j \in 1..Len(appointments) :
        ( /\ i < j
          /\ Active(appointments[i]) /\ Active(appointments[j])
          /\ appointments[i].business_id = appointments[j].business_id
          /\ appointments[i].date = appointments[j].date
          /\ appointments[i].time = appointments[j].time )
        => appointments[i].staff_id # appointments[j].staff_id

\* a slot lies inside the hours of its date and, on the day of the clock t,
\* strictly after t
SlotWithinHours(slot, cfg, t) ==
    LET day == ParseDate(slot.date)
        hours == get_business_hours_for_day(cfg, DayName(day))
        start == ParseTime(slot.time)
    IN  /\ Len(hours) = 2
        /\ ParseTime(hours[1]) <= start
        /\ start + slot.duration_minutes <= ParseTime(hours[2])
        /\ (day = Today(t) => start > TimeOfDay(t))

\* C3: every slot check_availability returns, for any business hours
\* (on the hour or not) and any time preference, satisfies open <= start and
\* start + duration <= close for the hours of its date, and start > now when
\* its date is today.
C3_SlotsWithinHours ==
    trail.phase = "checked" =>
        \A i \in 1..Len(ret.slots) : SlotWithinHours(ret.slots[i], config, trail.at)

\* the last call was a check_availability that repeats, with the same
\* arguments, the check of a sequence that had reached `phase`
Rechecked(phase) == trail.phase = "checked" /\ trail.prev = phase

\* the result of the last call holds the (date, time, staff) of the slot
\* that the sequence booked
TrailSlotOffered ==
    LET d == DecodeSlot(trail.slot_id)
    IN  \E i \in 1..Len(ret.slots) :
            /\ ret.slots[i].date = d.date
            /\ ret.slots[i].time = d.time
            /\ ret.slots[i].staff_id = d.staff_id

\* C4: if Book succeeds for a slot that check_availability returned, a
\* following check_availability with the same arguments no longer contains a
\* slot with that (date, time, staff).
C4_BookedSlotGone == Rechecked("booked") => ~TrailSlotOffered

\* the start of the slot the sequence booked is later than the clock of the
\* last check
TrailSlotAhead ==
    LET d == DecodeSlot(trail.slot_id)
    IN  ParseDate(d.date) * MinutesPerDay + ParseTime(d.time) > trail.at

\* the date range of the sequence denotes, at the last check, the dates it
\* denoted at the first
TrailSameDates ==
    parse_date_range(trail.args.date_range, trail.at)
        = parse_date_range(trail.args.date_range, trail.prev_at)

\* C5 as stated: if an appointment created by Book is cancelled by Cancel
\* with no other booking in between, a following check_availability with the
\* same arguments again contains the slot (date, time, staff) it contained
\* before the booking.
C5_CancelledSlotBackAlways == Rechecked("cancelled") => TrailSlotOffered

\* C5: if an appointment created by Book is cancelled by Cancel with no other
\* booking in between, a following check_availability with the same
\* arguments again contains the slot it contained before the booking,
\* provided the slot's start is still later than the clock and the date
\* range still denotes the same dates.
C5_CancelledSlotBack ==
    (Rechecked("cancelled") /\ TrailSlotAhead /\ TrailSameDates) => TrailSlotOffered

\* the slot was booked, cancelled and offered again at a later clock
C5_Witness ==
    /\ Rechecked("cancelled")
    /\ TrailSlotAhead
    /\ TrailSameDates
    /\ TrailSlotOffered
    /\ appointments[trail.id].status = "cancelled"

StaffOverlap(store, business_id, d, duration) ==
    \E i \in 1..Len(store) :
        /\ store[i].business_id = business_id
        /\ store[i].status \notin {"cancelled", "no_show"}
        /\ store[i].date = d.date
        /\ (d.staff_id = NULL \/ store[i].staff_id = d.staff_id)
        /\ RowStart(store[i]) >= 0
        /\ ParseTime(d.time) < RowEnd(store[i])
        /\ RowStart(store[i]) < ParseTime(d.time) + duration

\* C7: Book rejects a slot of staff member S if and only if an active
\* appointment of the same staff S overlaps the slot's interval (for an 'any'
\* slot: an appointment of any staff); an appointment of another staff
\* member at the same date and time does not make Book fail.
C7_RejectedIffStaffOverlap ==
    [][ \A i \in BookInputs :
          (WellFormed(i[2]) /\ book_appointment(i[1], "haircut", i[2], i[3]))
          => ( ret'.error = "This time slot is no longer available"
               <=> StaffOverlap(appointments, i[1], DecodeSlot(i[2]),
                                ServiceDuration(config, "haircut")) ) ]_vars

\* C8: Book with a slot id that does not decode to a (date, time, staff)
\* triple returns the invalid-slot error and inserts no appointment;
\* Reschedule with such a new slot id returns it too and leaves the
\* appointment unchanged.
C8_MalformedSlotRejected ==
    [][ /\ \A i \in BookInputs :
              (~WellFormed(i[2]) /\ book_appointment(i[1], "haircut", i[2], i[3]))
              => (ret'.error = "Invalid slot ID" /\ appointments' = appointments)
        /\ \A i \in RescheduleInputs :
              (~WellFormed(i[3]) /\ reschedule_appointment(i[1], i[2], i[3]))
              => (ret'.error = "Invalid slot ID" /\ appointments' = appointments) ]_vars

\* no appointment qualifies for the cancellation: the id is unknown, of
\* another business or of an appointment not scheduled; or, without an id,
\* the phone has no scheduled appointment of today or later in the business
NoQualifyingAppointment(store, t, business_id, customer_phone, appointment_id) ==
    IF appointment_id # 0
    THEN \A i \in 1..Len(store) :
            \/ store[i].id # appointment_id
            \/ store[i].business_id # business_id
            \/ store[i].status # "scheduled"
    ELSE \A i \in 1..Len(store) :
            \/ store[i].business_id # business_id
            \/ store[i].customer_phone # customer_phone
            \/ store[i].status # "scheduled"
            \/ DateKey(store[i].date) < Today(t)

\* C9: Cancel with no qualifying appointment returns cancelled = false,
\* raises no error and leaves every appointment unchanged.
C9_NothingToCancel ==
    [][ \A i \in CancelInputs :
          ( /\ NoQualifyingAppointment(appointments, now, i[1], i[2], i[3])
            /\ cancel_appointment(i[1], i[2], i[3]) )
          => /\ ret'.op = "cancel"
             /\ ret'.cancelled = FALSE
             /\ ret'.error = ""
             /\ ret'.raised = FALSE
             /\ appointments' = appointments ]_vars

\* a Cancel found nothing to cancel although the table holds a scheduled
\* appointment
C9_Witness ==
    /\ ret.op = "cancel"
    /\ ret.cancelled = FALSE
    /\ \E i \in 1..Len(appointments) : appointments[i].status = "scheduled"

\* C10: every successful Cancel hands the freed (service, date, time) of the
\* cancelled appointment to the waitlist matcher, and every successful
\* Reschedule hands it the old slot: when the call has returned, matching has
\* run for the freed slot.
C10_FreedSlotMatched ==
    /\ (ret.op = "cancel" /\ ret.cancelled)
        => [service_id |-> appointments[ret.id].service_id,
            date |-> appointments[ret.id].date,
            time |-> appointments[ret.id].time] \in matcher_calls
    /\ (ret.op = "reschedule" /\ ret.error = "")
        => \E c \in matcher_calls : c.service_id = appointments[ret.id].service_id

\* another active appointment (not except_id) of the staff member overlaps
\* the interval that starts at `time` on `date` and lasts `duration`
OtherStaffOverlap(store, business_id, date, time, staff_id, duration, except_id) ==
    \E i \in 1..Len(store) :
        /\ store[i].id # except_id
        /\ store[i].business_id = business_id
        /\ store[i].status \notin {"cancelled", "no_show"}
        /\ store[i].date = date
        /\ (staff_id = NULL \/ store[i].staff_id = staff_id)
        /\ RowStart(store[i]) >= 0
        /\ ParseTime(time) < RowEnd(store[i])
        /\ RowStart(store[i]) < ParseTime(time) + duration

\* another active appointment (not except_id) of the business, of whatever
\* staff, overlaps that interval
OtherOverlap(store, business_id, date, time, duration, except_id) ==
    OtherStaffOverlap(store, business_id, date, time, NULL, duration, except_id)

\* C11: Reschedule returns the slot-not-available error and changes no
\* appointment whenever another active appointment (not the one being moved)
\* collides with the new slot's interval for that staff; the appointment
\* being moved is no conflict with itself, so moving it to a slot that no
\* other appointment occupies succeeds.
C11_RescheduleConflict ==
    [][ \A i \in RescheduleInputs :
          LET d == DecodeSlot(i[3])
              id == RescheduleTarget(appointments, i[1], i[2])
              staff == IF d.staff_id # NULL THEN d.staff_id ELSE appointments[id].staff_id
          IN  ( /\ WellFormed(i[3])
                /\ id # 0
                /\ reschedule_appointment(i[1], i[2], i[3]) )
              => /\ OtherStaffOverlap(appointments, i[1], d.date, d.time, staff,
                                      appointments[id].duration_minutes, id)
                    => ( /\ ret'.error = "The new time slot is not available"
                         /\ appointments' = appointments )
                 /\ ~OtherOverlap(appointments, i[1], d.date, d.time,
                                  appointments[id].duration_minutes, id)
                    => ( /\ ret'.error = ""
                         /\ appointments' = [appointments EXCEPT ![id] = Moved(@, d)] ) ]_vars

----------------------------------------------------------------------------
(* The waitlist: repositories/waitlist.py over the tables waitlist and     *)
(* waitlist_notifications.  An entry's id is its row index; created_at is  *)
(* the reading of the clock at its creation, and successive calls read     *)
(* increasing values, so it is modelled by the number of the creation.     *)

MaxEntries == 3     \* rows the waitlist table may hold when entries are notified and answered

MaxListed == 4      \* rows the waitlist table may hold at all
MaxNotes == 2       \* rows the waitlist_notifications table may hold

FallbackCount == 3

\* str.lower() / the case folding of LIKE, for the texts of the model
Fold(s) ==
    CASE s = "Monday"  -> "monday"
      [] s = "Evening" -> "evening"
      [] OTHER         -> s

Elems(seq) == {seq[i] : i \in 1..Len(seq)}

\* what the call returns to its caller: ok is the bool of the mark_* calls,
\* found the list of find_waiting_for_service_and_date
WaitRet(op, ok, found) ==
    [op |-> op, error |-> "", cancelled |-> FALSE, id |-> 0, raised |-> FALSE,
     slots |-> found, ok |-> ok]

\* the row INSERTed by WaitlistRepository.create
WaitlistRow(id, business_id, service_id, customer_contact, preferred_dates, preferred_times) ==
    [id |-> id, business_id |-> business_id, service_id |-> service_id,
     customer_contact |-> customer_contact, preferred_dates |-> preferred_dates,
     preferred_times |-> preferred_times, status |-> "waiting", created_at |-> id]

create(business_id, service_id, customer_contact, preferred_dates, preferred_times) ==
    /\ Len(waitlist) < MaxListed
    /\ waitlist' = Append(waitlist,
           WaitlistRow(Len(waitlist) + 1, business_id, service_id, customer_contact,
                       preferred_dates, preferred_times))
    /\ ret' = WaitRet("create", TRUE, <<>>)
    /\ trail' = NoTrail
    /\ UNCHANGED <<appointments, now, config, matcher_calls, customers, txn, notifications, pc, req, conc_ret, users, businesses, toolkit, recorded_by, loop>>

\* UPDATE waitlist SET status = ? WHERE id = ?
WithStatus(store, waitlist_id, status) ==
    [i \in 1..Len(store) |->
        IF store[i].id = waitlist_id THEN [store[i] EXCEPT !.status = status] ELSE store[i]]

\* UPDATE waitlist_notifications SET response = ?, booking_created = ?
\* WHERE waitlist_id = ? AND response = 'pending'
Answered(notes, waitlist_id, response, booking_created) ==
    [i \in 1..Len(notes) |->
        IF notes[i].waitlist_id = waitlist_id /\ notes[i].response = "pending"
        THEN [notes[i] EXCEPT !.response = response,
                              !.booking_created =
                                  IF booking_created THEN 1 ELSE notes[i].booking_created]
        ELSE notes[i]]

\* cursor.rowcount > 0 after that UPDATE
AnyPending(notes, waitlist_id) ==
    \E i \in 1..Len(notes) :
        notes[i].waitlist_id = waitlist_id /\ notes[i].response = "pending"

\* mark_notified: the UPDATE has no condition on the status; the INSERT
\* happens when a cancelled appointment is named (0 is None), and the bool
\* returned is the rowcount of the last statement
mark_notified(waitlist_id, cancelled_appointment_id) ==
    /\ waitlist' = WithStatus(waitlist, waitlist_id, "notified")
    /\ IF cancelled_appointment_id # 0
       THEN /\ Len(notifications) < MaxNotes
            /\ notifications' = Append(notifications,
                   [id |-> Len(notifications) + 1, waitlist_id |-> waitlist_id,
                    cancelled_appointment_id |-> cancelled_appointment_id,
                    response |-> "pending", booking_created |-> 0])
            /\ ret' = WaitRet("mark_notified", TRUE, <<>>)
       ELSE /\ UNCHANGED notifications
            /\ ret' = WaitRet("mark_notified",
                              \E i \in 1..Len(waitlist) : waitlist[i].id = waitlist_id, <<>>)
    /\ trail' = NoTrail
    /\ UNCHANGED <<appointments, now, config, matcher_calls, customers, txn, pc, req, conc_ret, users, businesses, toolkit, recorded_by, loop>>

mark_booked(waitlist_id) ==
    /\ waitlist' = WithStatus(waitlist, waitlist_id, "booked")
    /\ notifications' = Answered(notifications, waitlist_id, "accepted", TRUE)
    /\ ret' = WaitRet("mark_booked", AnyPending(notifications, waitlist_id), <<>>)
    /\ trail' = NoTrail
    /\ UNCHANGED <<appointments, now, config, matcher_calls, customers, txn, pc, req, conc_ret, users, businesses, toolkit, recorded_by, loop>>

mark_declined(waitlist_id) ==
    /\ waitlist' = WithStatus(waitlist, waitlist_id, "waiting")
    /\ notifications' = Answered(notifications, waitlist_id, "declined", FALSE)
    /\ ret' = WaitRet("mark_declined", AnyPending(notifications, waitlist_id), <<>>)
    /\ trail' = NoTrail
    /\ UNCHANGED <<appointments, now, config, matcher_calls, customers, txn, pc, req, conc_ret, users, businesses, toolkit, recorded_by, loop>>

----------------------------------------------------------------------------
(* Waitlist promotion: entries are created, notified of a cancelled        *)
(* appointment and answered, while appointments are booked and cancelled.  *)

Join == Len(waitlist) < MaxEntries /\ create("b1", "haircut", "p1", <<>>, <<>>)

\* an entry id past the rows of the table is an unknown id
Notify ==
    \E waitlist_id \in 1..MaxEntries, cancelled_appointment_id \in 0..1 :
        mark_notified(waitlist_id, cancelled_appointment_id)

Accept == \E waitlist_id \in 1..MaxEntries : mark_booked(waitlist_id)

Decline == \E waitlist_id \in 1..MaxEntries : mark_declined(waitlist_id)

WaitBook ==
    \E customer_phone \in {"p1", "p2"} :
        book_appointment("b1", "haircut", SlotId(0, 540, "s1"), customer_phone)

WaitCancel ==
    \E appointment_id \in 1..MaxAppts : cancel_appointment("b1", NULL, appointment_id)

NextWait == Join \/ Notify \/ Accept \/ Decline \/ WaitBook \/ WaitCancel

SpecWait == Init /\ [][NextWait]_vars

\* the notifications of an entry that await an answer
Pending(waitlist_id) ==
    {i \in 1..Len(notifications) :
        notifications[i].waitlist_id = waitlist_id /\ notifications[i].response = "pending"}

\* C12: a waitlist entry never has more than one notification with
\* response = pending (a Notify on an entry already notified is rejected and
\* creates no second notification).
C12_OnePendingNotification ==
    \A waitlist_id \in 1..Len(waitlist) : Cardinality(Pending(waitlist_id)) <= 1

\* the status changes of a waitlist entry that the state machine allows
AllowedStatusChanges ==
    {<<"waiting", "notified">>, <<"notified", "booked">>,
     <<"notified", "waiting">>, <<"notified", "expired">>}

\* C13: under any sequence of mark_notified, mark_booked and mark_declined
\* calls the status of a waitlist entry changes only along waiting->notified,
\* notified->booked, notified->waiting and notified->expired; booked is
\* reached only from notified and is never left.
C13_StatusTransitions ==
    [][ \A i \in 1..Len(waitlist) :
          waitlist'[i].status # waitlist[i].status
          => <<waitlist[i].status, waitlist'[i].status>> \in AllowedStatusChanges ]_vars

\* C14: whenever an entry is set to booked and its notification to accepted
\* with booking_created = 1, an appointment of the entry's customer for the
\* entry's service has been created on the slot the cancelled appointment
\* freed.
C14_AcceptedMeansBooked ==
    \A n \in 1..Len(notifications) :
        ( /\ notifications[n].response = "accepted"
          /\ notifications[n].booking_created = 1
          /\ notifications[n].waitlist_id \in 1..Len(waitlist)
          /\ notifications[n].cancelled_appointment_id \in 1..Len(appointments) )
        => LET entry == waitlist[notifications[n].waitlist_id]
               freed == appointments[notifications[n].cancelled_appointment_id]
           IN  \E a \in 1..Len(appointments) :
                   /\ a # freed.id
                   /\ appointments[a].business_id = entry.business_id
                   /\ appointments[a].service_id = entry.service_id
                   /\ appointments[a].customer_phone = entry.customer_contact
                   /\ appointments[a].date = freed.date
                   /\ appointments[a].time = freed.time

----------------------------------------------------------------------------
(* Booking for an identified customer, statement by statement.  Each       *)
(* request holds a connection of its own: the INSERT opens a transaction,  *)
(* the UPDATE of the customer joins it, conn.commit() ends it, and a       *)
(* connection closed before its commit loses what it wrote.                *)

MaxCustomers == 2

\* the row INSERTed by the customers API, with visit_count 0
CustomerRow(id, business_id, phone) ==
    [id |-> id, business_id |-> business_id, phone |-> phone, visit_count |-> 0,
     last_visit_date |-> NULL, favorite_service_id |-> NULL]

\* SELECT id FROM customers WHERE business_id = ? AND phone = ?
PhoneKnown(store, business_id, phone) ==
    \E i \in 1..Len(store) :
        store[i].business_id = business_id /\ store[i].phone = phone

\* POST /customers: a phone already known to the business is refused (HTTP 400)
create_customer(business_id, phone) ==
    /\ Len(customers) < MaxCustomers
    /\ IF PhoneKnown(customers, business_id, phone)
       THEN /\ ret' = [NoRet EXCEPT !.op = "create_customer",
                                    !.error = "Customer with this phone already exists"]
            /\ UNCHANGED customers
       ELSE /\ customers' = Append(customers,
                                   CustomerRow(Len(customers) + 1, business_id, phone))
            /\ ret' = [NoRet EXCEPT !.op = "create_customer", !.id = Len(customers) + 1]
    /\ trail' = NoTrail
    /\ UNCHANGED <<appointments, now, config, matcher_calls, waitlist, notifications,
                   txn, pc, req, conc_ret, users, businesses, toolkit, recorded_by, loop>>

\* a request of the receptionist arrives with the customer it identified (or 0)
BookBeginFor(p, business_id, slot_id, customer_phone, customer_id) ==
    /\ pc[p] = "idle"
    /\ req' = [req EXCEPT ![p] = [op |-> "book", business_id |-> business_id, service_id |-> "haircut",
                                  slot_id |-> slot_id, customer_phone |-> customer_phone,
                                  customer_id |-> customer_id]]
    /\ IF DecodeSlot(slot_id).ok
       THEN /\ pc' = [pc EXCEPT ![p] = "select"]
            /\ UNCHANGED conc_ret
       ELSE /\ pc' = [pc EXCEPT ![p] = "done"]
            /\ conc_ret' = [conc_ret EXCEPT ![p] = Ret("book", "Invalid slot ID", FALSE, 0, Slots(<<>>))]
    /\ UNCHANGED <<appointments, now, config, ret, trail, matcher_calls, waitlist,
                   notifications, customers, txn, users, businesses, toolkit, recorded_by, loop>>

\* the database lets one connection write at a time
MayWrite(p) == \A q \in Procs \ {p} : txn[q] = NoWrites

\* an INSERT that is committed by itself, as on an autocommit connection
TxnInsertAutocommit(p) ==
    /\ pc[p] = "insert"
    /\ MayWrite(p)
    /\ Len(appointments) < MaxAppts
    /\ appointments' = Append(appointments,
           NewRow(Len(appointments) + 1, req[p].business_id, req[p].service_id,
                  DecodeSlot(req[p].slot_id), req[p].customer_id, req[p].customer_phone,
                  ServiceDuration(config, req[p].service_id)))
    /\ pc' = [pc EXCEPT ![p] = "update"]
    /\ UNCHANGED <<now, config, ret, trail, matcher_calls, waitlist, notifications,
                   customers, txn, req, conc_ret, users, businesses, toolkit, recorded_by, loop>>

\* INSERT INTO appointments: the row waits in the transaction of the connection
TxnInsert(p) ==
    /\ pc[p] = "insert"
    /\ MayWrite(p)
    /\ Len(appointments) < MaxAppts
    /\ txn' = [txn EXCEPT ![p].inserted = <<
           NewRow(Len(appointments) + 1, req[p].business_id, req[p].service_id,
                  DecodeSlot(req[p].slot_id), req[p].customer_id, req[p].customer_phone,
                  ServiceDuration(config, req[p].service_id)) >>]
    /\ pc' = [pc EXCEPT ![p] = "update"]
    /\ UNCHANGED <<appointments, now, config, ret, trail, matcher_calls, waitlist,
                   notifications, customers, req, conc_ret, users, businesses, toolkit, recorded_by, loop>>

\* if customer_id: UPDATE customers ..., in the same transaction
TxnUpdate(p) ==
    /\ pc[p] = "update"
    /\ txn' = IF req[p].customer_id # 0
              THEN [txn EXCEPT ![p].visited = <<req[p].customer_id>>]
              ELSE txn
    /\ pc' = [pc EXCEPT ![p] = "commit"]
    /\ UNCHANGED <<appointments, now, config, ret, trail, matcher_calls, waitlist,
                   notifications, customers, req, conc_ret, users, businesses, toolkit, recorded_by, loop>>

\* conn.commit(): everything the connection wrote becomes visible at once
TxnCommit(p) ==
    /\ pc[p] = "commit"
    /\ appointments' = appointments \o txn[p].inserted
    /\ customers' = IF txn[p].visited # <<>>
                    THEN Visited(customers, txn[p].visited[1],
                                 DecodeSlot(req[p].slot_id).date, req[p].service_id)
                    ELSE customers
    /\ txn' = [txn EXCEPT ![p] = NoWrites]
    /\ pc' = [pc EXCEPT ![p] = "done"]
    /\ conc_ret' = [conc_ret EXCEPT ![p] =
           Ret("book", "", FALSE, Len(appointments) + 1, Slots(<<>>))]
    /\ UNCHANGED <<now, config, ret, trail, matcher_calls, waitlist, notifications, req, users, businesses, toolkit, recorded_by, loop>>

\* a statement raises (a locked or unwritable database) or the request dies:
\* get_db_connection closes the connection without a commit
TxnFail(p) ==
    /\ pc[p] \in {"insert", "update", "commit"}
    /\ txn' = [txn EXCEPT ![p] = NoWrites]
    /\ pc' = [pc EXCEPT ![p] = "done"]
    /\ conc_ret' = [conc_ret EXCEPT ![p] = [NoRet EXCEPT !.op = "book", !.raised = TRUE]]
    /\ UNCHANGED <<appointments, now, config, ret, trail, matcher_calls, waitlist,
                   notifications, customers, req, users, businesses, toolkit, recorded_by, loop>>

TxnSlotIds == {SlotId(0, 540, "s1"), SlotId(0, 570, "s1")}

CustomerInputs == {<<"b1", "p1">>, <<"b2", "p1">>}

CreateCustomer == \E i \in CustomerInputs : create_customer(i[1], i[2])

\* the customer_id is none (0) or the id of a customer looked up before; ids
\* are uuid4 values, so an id is never that of a customer created later
BeginFor ==
    \E p \in Procs, slot_id \in TxnSlotIds, customer_id \in 0..Len(customers) :
        BookBeginFor(p, "b1", slot_id, "p1", customer_id)

InsertRow == \E p \in Procs : TxnInsert(p)

UpdateCustomer == \E p \in Procs : TxnUpdate(p)

Commit == \E p \in Procs : TxnCommit(p)

Fail == \E p \in Procs : TxnFail(p)

NextTxn ==
    CreateCustomer \/ BeginFor \/ Select \/ InsertRow \/ UpdateCustomer \/ Commit
        \/ Fail \/ Return

SpecTxn == Init /\ [][NextTxn]_vars

\* C15: every appointment a booking left in the store is linked to a
\* customer of the same business who has the phone number of the booking
C15_BookingLinksCustomer ==
    \A i \in 1..Len(appointments) :
        /\ appointments[i].customer_id \in 1..Len(customers)
        /\ customers[appointments[i].customer_id].business_id = appointments[i].business_id
        /\ customers[appointments[i].customer_id].phone = appointments[i].customer_phone

\* the committed appointments that name the customer
VisitsOf(customer_id) ==
    SelectSeq(appointments, LAMBDA row : row.customer_id = customer_id)

\* C16: in the committed store a customer's visit_count is the number of
\* appointments booked for them, and last_visit_date and favorite_service_id
\* are those of the last such appointment: neither write is there without
\* the other, whatever request failed and wherever it failed
C16_AppointmentAndVisitTogether ==
    \A c \in 1..Len(customers) :
        LET visits == VisitsOf(c)
        IN  /\ customers[c].visit_count = Len(visits)
            /\ visits # <<>> =>
                   /\ customers[c].last_visit_date = visits[Len(visits)].date
                   /\ customers[c].favorite_service_id = visits[Len(visits)].service_id
            /\ visits = <<>> =>
                   /\ customers[c].last_visit_date = NULL
                   /\ customers[c].favorite_service_id = NULL

\* one request failed after its INSERT while another booking for a customer
\* is committed
C16_Witness ==
    /\ \E p \in Procs : conc_ret[p].raised /\ req[p].customer_id \in 1..Len(customers)
    /\ \E c \in 1..Len(customers) : customers[c].visit_count > 0

----------------------------------------------------------------------------
(* Availability under other opening hours and time preferences *)

\* Monday to Friday the same hours, the weekend closed
WorkWeek(h) ==
    [d \in {"monday", "tuesday", "wednesday", "thursday", "friday", "saturday", "sunday"} |->
        IF d \in {"saturday", "sunday"} THEN Closed ELSE h]

WorkWeekConfig ==
    [hours |-> WorkWeek(Hours("09:00", "17:00")),
     services |-> <<Service("haircut", "Haircut", 60)>>]

\* hours that open before 09:00 and close at half past
EarlyConfig ==
    [hours |-> WeekOf(Hours("08:00", "10:30"), Hours("08:00", "10:30")),
     services |-> <<Service("haircut", "Haircut", 60)>>]

HoursConfigs == {HourlyConfig, HalfPastConfig, WorkWeekConfig, EarlyConfig}

\* <<business_id, date_range, time_preference, staff_id>>
HoursInputs ==
    {<<"b1", <<"2025-01-06">>, NULL, "s1">>,
     <<"b1", <<"2025-01-07">>, NULL, "s1">>,
     <<"b1", <<"2025-01-07">>, "whenever", "s1">>,
     <<"b1", <<"2025-01-07">>, "morning", "s1">>,
     <<"b1", <<"2025-01-11">>, NULL, "s1">>,
     <<"b1", <<"this week">>, NULL, "s1">>,
     <<"b1", <<"tomorrow">>, "after 5", NULL>>,
     <<"b1", <<"tomorrow">>, "after 24", NULL>>,
     <<"b2", <<"tomorrow">>, NULL, NULL>>}

CheckHours ==
    \E i \in HoursInputs : CheckAvailability(i[1], "haircut", i[2], i[3], i[4])

BookStaffSlot ==
    \E slot_id \in StaffSlotIds : book_appointment("b1", "haircut", slot_id, "p1")

InitHours == InitWith(HoursConfigs)

NextHours == CheckHours \/ BookStaffSlot \/ Tick \/ NextDay

SpecHours == InitHours /\ [][NextHours]_vars

\* C17: a check_availability neither raises nor returns an error, whatever
\* the date range, the time preference and the business hours
C17_CheckNeverFails ==
    ret.op = "check" => ~ret.raised /\ ret.error = ""

\* the starts of the business-hours window of a day: every 30-minute step
\* from the opening time at which the service ends by the closing time
WindowStarts(cfg, day, duration) ==
    LET hours == get_business_hours_for_day(cfg, DayName(day))
    IN  IF Len(hours) = 0 THEN {}
        ELSE {m \in HalfHours :
                 /\ m >= ParseTime(hours[1])
                 /\ (m - ParseTime(hours[1])) % SlotStep = 0
                 /\ m + duration <= ParseTime(hours[2])}

SlotTimesOn(slots, date) ==
    {ParseTime(slots[i].time) : i \in {j \in 1..Len(slots) : slots[j].date = date}}

\* C18: with no appointment in the store, one staff member and no (or an
\* unparseable) time preference, a check for a single date that is not today
\* returns every start of the business-hours window of that date, and no
\* slot at all for a closed date
C18_FullBusinessHours ==
    [][\A i \in HoursInputs :
          (/\ appointments = <<>>
           /\ i[3] \in {NULL, "whenever"}
           /\ i[4] = "s1"
           /\ Len(i[2]) = 1 /\ ParseDate(i[2][1]) >= 0
           /\ ParseDate(i[2][1]) # Today(now)
           /\ CheckAvailability(i[1], "haircut", i[2], i[3], i[4]))
          => /\ ~ret'.raised
             /\ WindowStarts(config, ParseDate(i[2][1]), ServiceDuration(config, "haircut"))
                    \subseteq SlotTimesOn(ret'.slots, i[2][1])
             /\ (Len(get_business_hours_for_day(config, DayName(ParseDate(i[2][1])))) = 0
                    => ret'.slots = <<>>)]_vars

----------------------------------------------------------------------------
(* WaitlistRepository.find_waiting_for_service_and_date *)

\* preferred_dates LIKE '%"<date>"%' on the JSON list text: some element is
\* the date, ASCII letters compared without case (the dates of the model hold
\* neither of the LIKE wildcards '%' and '_')
Like(date, preferred_dates) ==
    \E x \in Elems(preferred_dates) : Fold(x) = Fold(date)

\* int(slot_time.split(":")[0]); -1 stands for ValueError
HourOf(slot_time) ==
    IF ParseTime(slot_time) >= 0 THEN ParseTime(slot_time) \div 60 ELSE -1

\* '"after 5" in pref_lower' and '"before noon" in pref_lower' for the
\* preference texts of the model
HasAfter5(pref) == Fold(pref) \in {"after 5", "after 5pm"}

HasBeforeNoon(pref) == Fold(pref) = "before noon"

\* a ValueError of int() is swallowed by the bare except: False
\* (underscore of the private method dropped)
time_matches_preference(slot_time, preferences) ==
    LET hour == HourOf(slot_time)
    IN  /\ hour >= 0
        /\ \E pref \in Elems(preferences) :
               \/ Fold(pref) = "morning" /\ 6 <= hour /\ hour < 12
               \/ Fold(pref) = "afternoon" /\ 12 <= hour /\ hour < 17
               \/ Fold(pref) = "evening" /\ 17 <= hour /\ hour < 21
               \/ HasAfter5(pref) /\ hour >= 17
               \/ HasBeforeNoon(pref) /\ hour < 12

Without(rows, i) == SubSeq(rows, 1, i - 1) \o SubSeq(rows, i + 1, Len(rows))

RECURSIVE ByCreatedAtDescending(_)
\* ORDER BY w.created_at DESC
ByCreatedAtDescending(rows) ==
    IF rows = <<>> THEN <<>>
    ELSE LET i == CHOOSE i \in 1..Len(rows) :
                      \A j \in 1..Len(rows) :
                          \/ rows[i].created_at > rows[j].created_at
                          \/ rows[i].created_at = rows[j].created_at /\ i <= j
         IN  <<rows[i]>> \o ByCreatedAtDescending(Without(rows, i))

RECURSIVE ByCreatedAt(_)
\* ORDER BY w.created_at ASC (rows of equal created_at in table order)
ByCreatedAt(rows) ==
    IF rows = <<>> THEN <<>>
    ELSE LET i == CHOOSE i \in 1..Len(rows) :
                      \A j \in 1..Len(rows) :
                          \/ rows[i].created_at < rows[j].created_at
                          \/ rows[i].created_at = rows[j].created_at /\ i <= j
         IN  <<rows[i]>> \o ByCreatedAt(Without(rows, i))

\* a find that returns the filtered list even when it is empty
find_waiting_without_fallback(store, business_id, service_id, date, time_preference) ==
    LET Selected(w) == /\ w.business_id = business_id
                       /\ w.service_id = service_id
                       /\ w.status = "waiting"
                       /\ (Like(date, w.preferred_dates) \/ w.preferred_dates = <<>>)
        entries == ByCreatedAt(SelectSeq(store, Selected))
        Kept(entry) == \/ entry.preferred_times = <<>>
                       \/ time_preference \in Elems(entry.preferred_times)
                       \/ time_matches_preference(time_preference, entry.preferred_times)
    IN  IF time_preference # NULL /\ entries # <<>>
        THEN SelectSeq(entries, Kept)
        ELSE entries

find_waiting_for_service_and_date(store, business_id, service_id, date, time_preference) ==
    LET Selected(w) == /\ w.business_id = business_id
                       /\ w.service_id = service_id
                       /\ w.status = "waiting"
                       /\ (Like(date, w.preferred_dates) \/ w.preferred_dates = <<>>)
        entries == ByCreatedAt(SelectSeq(store, Selected))
        Kept(entry) == \/ entry.preferred_times = <<>>
                       \/ time_preference \in Elems(entry.preferred_times)
                       \/ time_matches_preference(time_preference, entry.preferred_times)
        filtered == SelectSeq(entries, Kept)
    IN  IF time_preference # NULL /\ entries # <<>>
        THEN IF filtered # <<>> THEN filtered
             ELSE SubSeq(entries, 1, Min(Len(entries), FallbackCount))
        ELSE entries

FindArgs(business_id, service_id, date, time_preference) ==
    [business_id |-> business_id, service_id |-> service_id, date |-> date,
     time_preference |-> time_preference]

\* the call; the history keeps its arguments, the result is the list of the
\* ids of the entries returned
FindWaiting(business_id, service_id, date, time_preference) ==
    LET found == find_waiting_for_service_and_date(waitlist, business_id, service_id,
                                                   date, time_preference)
    IN  /\ ret' = WaitRet("find", TRUE, [i \in 1..Len(found) |-> found[i].id])
        /\ trail' = [NoTrail EXCEPT !.phase = "found",
                                    !.args = FindArgs(business_id, service_id, date,
                                                      time_preference)]
        /\ UNCHANGED <<appointments, now, config, matcher_calls, waitlist, notifications,
                       customers, txn, pc, req, conc_ret, users, businesses, toolkit, recorded_by, loop>>

\* <<business_id, service_id, preferred_dates, preferred_times>>
EntryInputs ==
    {<<"b1", "haircut", <<>>, <<>>>>,
     <<"b1", "haircut", <<"2025-01-06">>, <<"morning">>>>,
     <<"b1", "haircut", <<"2025-01-07", "2025-01-06">>, <<"Evening">>>>,
     <<"b1", "haircut", <<"Monday">>, <<>>>>,
     <<"b1", "color", <<>>, <<>>>>,
     <<"b2", "haircut", <<"2025-01-06">>, <<>>>>}

\* <<business_id, service_id, date, time_preference>>
FindInputs ==
    ({"b1"} \X {"haircut"} \X {"2025-01-06", "2025-01-08"} \X {NULL, "18:00", "evening"})
        \union {<<"b2", "haircut", "2025-01-06", NULL>>}

JoinWith == \E i \in EntryInputs : create(i[1], i[2], "p1", i[3], i[4])

\* an entry leaves the waiting status
Promote == \E waitlist_id \in 1..MaxListed : mark_notified(waitlist_id, 0)

Find == \E i \in FindInputs : FindWaiting(i[1], i[2], i[3], i[4])

NextFind == JoinWith \/ Promote \/ Find

SpecFind == Init /\ [][NextFind]_vars

\* the waiting entries of the business and the service whose preferred_dates
\* is empty or holds the date
Eligible(business_id, service_id, date) ==
    {i \in 1..Len(waitlist) :
        /\ waitlist[i].business_id = business_id
        /\ waitlist[i].service_id = service_id
        /\ waitlist[i].status = "waiting"
        /\ (waitlist[i].preferred_dates = <<>> \/ date \in Elems(waitlist[i].preferred_dates))}

\* the list names exactly the entries of the set, each once, oldest first
ListsInCreationOrder(found, entries) ==
    /\ Elems(found) = entries
    /\ Len(found) = Cardinality(entries)
    /\ \A j, k \in 1..Len(found) :
           j < k => waitlist[found[j]].created_at < waitlist[found[k]].created_at

----------------------------------------------------------------------------
(* Signup and login (api/auth.py).  A signup runs on a connection of its   *)
(* own: the SELECT for the username, the INSERT of the business, the       *)
(* INSERT of the user, the commit; requests of several clients interleave. *)

MaxUsers == 2

Usernames == {"u1", "u2"}

Roles == {"admin", "business_owner"}

\* what signup and login answer: error is the detail of the HTTPException
\* ('' for status 200), raised an exception that is no HTTPException;
\* ids are row numbers, 0 for None
AuthRet(op, error, raised, user_id, business_id, business) ==
    [op |-> op, error |-> error, raised |-> raised, user_id |-> user_id,
     business_id |-> business_id, business |-> business]

SignupReq(username, role, business_name, business_type) ==
    [op |-> "signup", username |-> username, role |-> role,
     business_name |-> business_name, business_type |-> business_type]

\* SELECT id FROM users WHERE username = ?
UsernameTaken(store, username) ==
    \E i \in 1..Len(store) : store[i].username = username

\* the request arrives, the username is looked up, the role is checked
SignupBegin(p, username, role, business_name, business_type) ==
    /\ pc[p] = "idle"
    /\ Len(users) < MaxUsers
    /\ req' = [req EXCEPT ![p] = SignupReq(username, role, business_name, business_type)]
    /\ IF UsernameTaken(users, username)
       THEN /\ pc' = [pc EXCEPT ![p] = "done"]
            /\ conc_ret' = [conc_ret EXCEPT ![p] =
                   AuthRet("signup", "Username already exists", FALSE, 0, 0, 0)]
       ELSE IF role = "business_owner" /\ (business_name = NULL \/ business_type = NULL)
       THEN /\ pc' = [pc EXCEPT ![p] = "done"]
            /\ conc_ret' = [conc_ret EXCEPT ![p] =
                   AuthRet("signup", "Business name and type required for business_owner role",
                           FALSE, 0, 0, 0)]
       ELSE /\ pc' = [pc EXCEPT ![p] = IF role = "business_owner" THEN "business" ELSE "user"]
            /\ UNCHANGED conc_ret
    /\ UNCHANGED <<appointments, now, config, ret, trail, matcher_calls, waitlist,
                   notifications, customers, txn, users, businesses, toolkit, recorded_by, loop>>

BusinessRow(id, name, type) == [id |-> id, name |-> name, type |-> type]

\* an INSERT INTO businesses that is committed by itself
SignupBusinessAutocommit(p) ==
    /\ pc[p] = "business"
    /\ MayWrite(p)
    /\ businesses' = Append(businesses,
           BusinessRow(Len(businesses) + 1, req[p].business_name, req[p].business_type))
    /\ txn' = [txn EXCEPT ![p].visited = <<Len(businesses) + 1>>]
    /\ pc' = [pc EXCEPT ![p] = "user"]
    /\ UNCHANGED <<appointments, now, config, ret, trail, matcher_calls, waitlist,
                   notifications, customers, users, toolkit, recorded_by, loop, req, conc_ret>>

\* INSERT INTO businesses: the row waits in the transaction of the connection;
\* visited keeps the business_id for the INSERT of the user
SignupBusiness(p) ==
    /\ pc[p] = "business"
    /\ MayWrite(p)
    /\ txn' = [txn EXCEPT ![p].inserted = <<
           BusinessRow(Len(businesses) + 1, req[p].business_name, req[p].business_type) >>,
                          ![p].visited = <<Len(businesses) + 1>>]
    /\ pc' = [pc EXCEPT ![p] = "user"]
    /\ UNCHANGED <<appointments, now, config, ret, trail, matcher_calls, waitlist,
                   notifications, customers, users, businesses, toolkit, recorded_by, loop,
                   req, conc_ret>>

UserRow(id, username, role, business_id) ==
    [id |-> id, username |-> username, role |-> role, business_id |-> business_id]

\* INSERT INTO users and conn.commit().  The column username is UNIQUE: if
\* another signup committed the name since the SELECT, the INSERT raises
\* IntegrityError and the connection is closed without a commit.
SignupUser(p) ==
    /\ pc[p] = "user"
    /\ MayWrite(p)
    /\ LET business_id == IF txn[p].visited = <<>> THEN 0 ELSE txn[p].visited[1]
           user_id == Len(users) + 1
       IN  IF UsernameTaken(users, req[p].username)
           THEN /\ conc_ret' = [conc_ret EXCEPT ![p] =
                       AuthRet("signup", "", TRUE, 0, 0, 0)]
                /\ UNCHANGED <<users, businesses>>
           ELSE /\ Len(users) < MaxUsers
                /\ users' = Append(users,
                       UserRow(user_id, req[p].username, req[p].role, business_id))
                /\ businesses' = businesses \o txn[p].inserted
                /\ conc_ret' = [conc_ret EXCEPT ![p] =
                       AuthRet("signup", "", FALSE, user_id, business_id, 0)]
    /\ txn' = [txn EXCEPT ![p] = NoWrites]
    /\ pc' = [pc EXCEPT ![p] = "done"]
    /\ trail' = NoTrail
    /\ UNCHANGED <<appointments, now, config, ret, matcher_calls, waitlist,
                   notifications, customers, toolkit, recorded_by, loop, req>>

\* the request dies or the database stays locked: no commit
SignupFail(p) ==
    /\ pc[p] \in {"business", "user"}
    /\ txn' = [txn EXCEPT ![p] = NoWrites]
    /\ pc' = [pc EXCEPT ![p] = "done"]
    /\ conc_ret' = [conc_ret EXCEPT ![p] = AuthRet("signup", "", TRUE, 0, 0, 0)]
    /\ UNCHANGED <<appointments, now, config, ret, trail, matcher_calls, waitlist,
                   notifications, customers, users, businesses, toolkit, recorded_by, loop, req>>

\* SELECT ... FROM users WHERE username = ? AND role = ?: the row number or 0
UserWith(store, username, role) ==
    IF \E i \in 1..Len(store) : store[i].username = username /\ store[i].role = role
    THEN CHOOSE i \in 1..Len(store) : store[i].username = username /\ store[i].role = role
    ELSE 0

\* SELECT ... FROM businesses WHERE id = ?: the id of the row or 0 (None)
BusinessOf(store, business_id) ==
    IF business_id # 0 /\ \E i \in 1..Len(store) : store[i].id = business_id
    THEN business_id
    ELSE 0

\* login; the UPDATE of last_login changes no column of the model
login(username, role) ==
    /\ LET user == UserWith(users, username, role)
       IN  IF user = 0
           THEN ret' = AuthRet("login", "Invalid username or role", FALSE, 0, 0, 0)
           ELSE ret' = AuthRet("login", "", FALSE, users[user].id, users[user].business_id,
                               BusinessOf(businesses, users[user].business_id))
    /\ trail' = [NoTrail EXCEPT !.phase = "login",
                                !.args = [username |-> username, role |-> role]]
    /\ UNCHANGED <<appointments, now, config, matcher_calls, waitlist, notifications,
                   customers, txn, users, businesses, toolkit, recorded_by, loop, pc, req, conc_ret>>

SignupInputs ==
    (Usernames \X Roles \X {"Test Salon"} \X {"beauty"})
        \union {<<"u1", "business_owner", NULL, "beauty">>}

Signup ==
    \E p \in Procs, i \in SignupInputs : SignupBegin(p, i[1], i[2], i[3], i[4])

InsertBusiness == \E p \in Procs : SignupBusiness(p)

InsertUser == \E p \in Procs : SignupUser(p)

Abort == \E p \in Procs : SignupFail(p)

Login == \E username \in Usernames, role \in Roles : login(username, role)

NextAuth == Signup \/ InsertBusiness \/ InsertUser \/ Abort \/ Login \/ Return

SpecAuth == Init /\ [][NextAuth]_vars

\* the business owners among the users
Owners == {i \in 1..Len(users) : users[i].role = "business_owner"}

\* C21: (1) the answer to a successful signup of a business owner names the
\* business created for that user; (2) a login with the username and role of
\* a business owner succeeds and returns that user's business; (3) no two
\* users share a username, and there is exactly one business per business
\* owner, so a rejected signup has left neither a user nor a business
C21_SignupThenLogin ==
    /\ \A p \in Procs :
           (/\ pc[p] = "done" /\ req[p].op = "signup"
            /\ req[p].role = "business_owner"
            /\ conc_ret[p].error = "" /\ ~conc_ret[p].raised)
           => /\ conc_ret[p].business_id \in 1..Len(businesses)
              /\ conc_ret[p].user_id \in 1..Len(users)
              /\ users[conc_ret[p].user_id].username = req[p].username
              /\ users[conc_ret[p].user_id].business_id = conc_ret[p].business_id
    /\ \A p \in Procs :
           (/\ pc[p] = "done" /\ req[p].op = "signup"
            /\ (conc_ret[p].error # "" \/ conc_ret[p].raised))
           => conc_ret[p].user_id = 0 /\ conc_ret[p].business_id = 0
    /\ (trail.phase = "login" /\ UserWith(users, trail.args.username, trail.args.role) \in Owners)
           => /\ ret.error = ""
              /\ ret.business # 0
              /\ ret.business = users[UserWith(users, trail.args.username, trail.args.role)].business_id
    /\ \A i, j \in 1..Len(users) : users[i].username = users[j].username => i = j
    /\ Len(businesses) = Cardinality(Owners)
    /\ \A b \in 1..Len(businesses) :
           Cardinality({i \in Owners : users[i].business_id = b}) = 1

\* a business owner has logged in while a signup with a taken username was
\* turned away after its INSERT of a business
C21_Witness ==
    /\ trail.phase = "login" /\ ret.business # 0
    /\ \E p \in Procs :
           /\ pc[p] = "done" /\ req[p].op = "signup" /\ req[p].role = "business_owner"
           /\ conc_ret[p].raised
           /\ UsernameTaken(users, req[p].username)

\* the starts inside the preference window [time_start, time_end) of a day
\* at which the service ends by the closing time
PreferredStarts(cfg, day, duration, time_preference) ==
    LET hours == get_business_hours_for_day(cfg, DayName(day))
        pref == parse_time_preference(time_preference)
        from == Max(ParseTime(hours[1]), pref[1] * 60)
    IN  IF Len(hours) = 0 THEN {}
        ELSE {m \in HalfHours :
                 /\ m >= from
                 /\ (m - from) % SlotStep = 0
                 /\ m < pref[2] * 60
                 /\ m + duration <= ParseTime(hours[2])}

\* C22: with a time preference that narrows the window, no appointment in
\* the store and one staff member, a check for a single date that is not
\* today returns every start inside the preference window at which the
\* service ends by the closing time, also when it ends after the window
C22_MayRunPastPreference ==
    [][\A i \in HoursInputs :
          (/\ appointments = <<>>
           /\ i[3] = "morning"
           /\ i[4] = "s1"
           /\ Len(i[2]) = 1 /\ ParseDate(i[2][1]) >= 0
           /\ ParseDate(i[2][1]) # Today(now)
           /\ CheckAvailability(i[1], "haircut", i[2], i[3], i[4]))
          => /\ ~ret'.raised
             /\ PreferredStarts(config, ParseDate(i[2][1]), ServiceDuration(config, "haircut"), i[3])
                    \subseteq SlotTimesOn(ret'.slots, i[2][1])]_vars

----------------------------------------------------------------------------
(* Frame and target properties of Reschedule and Cancel *)

\* the two rows differ at most in date, time and staff_id
SameButSlot(old, new) ==
    new = [old EXCEPT !.date = new.date, !.time = new.time, !.staff_id = new.staff_id]

\* C23: a successful reschedule changes only the date, the time and the
\* staff of the appointment it names and returns that appointment's id; no
\* row appears or disappears, every other row stays as it was, and a slot of
\* 'any' staff leaves the staff of the appointment as it was
C23_RescheduleFrame ==
    [][\A i \in RescheduleInputs :
          (reschedule_appointment(i[1], i[2], i[3]) /\ ret'.error = "")
          => /\ ret'.id = i[2]
             /\ Len(appointments') = Len(appointments)
             /\ \A k \in 1..Len(appointments) :
                    k # i[2] => appointments'[k] = appointments[k]
             /\ SameButSlot(appointments[i[2]], appointments'[i[2]])
             /\ appointments'[i[2]].date = DecodeSlot(i[3]).date
             /\ appointments'[i[2]].time = DecodeSlot(i[3]).time
             /\ appointments'[i[2]].staff_id =
                    IF DecodeSlot(i[3]).staff_id = NULL
                    THEN appointments[i[2]].staff_id
                    ELSE DecodeSlot(i[3]).staff_id]_vars

\* an appointment of a staff member was moved to the 'any' slot of Tuesday
\* 09:30 while another appointment is in the store
C23_Witness ==
    /\ ret.op = "reschedule" /\ ret.error = "" /\ ret.id = 1
    /\ Len(appointments) = 2
    /\ appointments[1].date = DateStr(1) /\ appointments[1].time = TimeStr(570)
    /\ appointments[1].staff_id # NULL

\* the appointments of the business with the customer phone that are
\* scheduled and dated today or later
UpcomingOf(business_id, customer_phone) ==
    {k \in 1..Len(appointments) :
        /\ appointments[k].business_id = business_id
        /\ appointments[k].customer_phone = customer_phone
        /\ appointments[k].status = "scheduled"
        /\ DateKey(appointments[k].date) >= Today(now)}

\* no appointment of the set is dated or timed before appointment k
Soonest(k, rows) ==
    \A j \in rows :
        \/ DateKey(appointments[k].date) < DateKey(appointments[j].date)
        \/ /\ DateKey(appointments[k].date) = DateKey(appointments[j].date)
           /\ TimeKey(appointments[k].time) <= TimeKey(appointments[j].time)

\* C24: a cancel without an appointment id cancels the soonest upcoming
\* scheduled appointment of the customer and changes no other row; a cancel
\* with an appointment id changes no row but the one it names
C24_CancelsTheSoonest ==
    [][\A i \in CancelInputs :
          cancel_appointment(i[1], i[2], i[3])
          => IF i[3] = 0
             THEN IF UpcomingOf(i[1], i[2]) = {}
                  THEN appointments' = appointments /\ ~ret'.cancelled
                  ELSE \E k \in UpcomingOf(i[1], i[2]) :
                           /\ Soonest(k, UpcomingOf(i[1], i[2]))
                           /\ ret'.cancelled /\ ret'.id = k
                           /\ appointments' = [appointments EXCEPT ![k].status = "cancelled"]
             ELSE IF ret'.cancelled
                  THEN /\ ret'.id = i[3]
                       /\ appointments' = [appointments EXCEPT ![i[3]].status = "cancelled"]
                  ELSE appointments' = appointments]_vars

\* the customer's earlier appointment, booked second, was cancelled and the
\* later one, booked first, is still scheduled
C24_Witness ==
    /\ ret.op = "cancel" /\ ret.cancelled /\ ret.id = 2
    /\ Len(appointments) = 2
    /\ appointments[1].status = "scheduled"
    /\ appointments[2].status = "cancelled"
    /\ appointments[1].business_id = appointments[2].business_id
    /\ appointments[1].customer_phone = appointments[2].customer_phone
    /\ DateKey(appointments[1].date) > DateKey(appointments[2].date)
    /\ DateKey(appointments[2].date) >= Today(now)

\* the entry's preferred_times is empty or matches the time-of-day value
TimeSuits(i, time_preference) ==
    \/ waitlist[i].preferred_times = <<>>
    \/ time_preference \in Elems(waitlist[i].preferred_times)
    \/ time_matches_preference(time_preference, waitlist[i].preferred_times)

\* the oldest n entries of a set
Oldest(entries, n) ==
    {i \in entries :
        Cardinality({j \in entries : waitlist[j].created_at < waitlist[i].created_at}) < n}

\* C25: a find with a time-of-day value returns the date-eligible entries
\* whose preferred_times is empty or matches, oldest first; if there is none,
\* the three oldest date-eligible entries, oldest first; so it returns
\* nothing only when no entry is date-eligible
C25_FilterOrFirstThree ==
    (trail.phase = "found" /\ trail.args.time_preference # NULL) =>
        LET eligible == Eligible(trail.args.business_id, trail.args.service_id,
                                 trail.args.date)
            suited == {i \in eligible : TimeSuits(i, trail.args.time_preference)}
        IN  /\ suited # {} => ListsInCreationOrder(ret.slots, suited)
            /\ suited = {} => ListsInCreationOrder(ret.slots, Oldest(eligible, FallbackCount))
            /\ ret.slots = <<>> => eligible = {}

\* four entries are date-eligible and none suits the time: the find
\* returned the first three
C25_Witness ==
    /\ trail.phase = "found" /\ trail.args.time_preference # NULL
    /\ Cardinality(Eligible(trail.args.business_id, trail.args.service_id,
                            trail.args.date)) = 4
    /\ \A i \in 1..Len(waitlist) : ~TimeSuits(i, trail.args.time_preference)
    /\ ret.slots = <<1, 2, 3>>

----------------------------------------------------------------------------
(* The time matcher of the waitlist on its own: every time of the day
   against every bucket *)

MatchArgs(slot_time, preferences) == [slot_time |-> slot_time, preferences |-> preferences]

\* the call; the history keeps its arguments, ok is the bool returned
Matches(slot_time, preferences) ==
    /\ ret' = WaitRet("match", time_matches_preference(slot_time, preferences), <<>>)
    /\ trail' = [NoTrail EXCEPT !.phase = "matched",
                                !.args = MatchArgs(slot_time, preferences)]
    /\ UNCHANGED <<appointments, now, config, matcher_calls, waitlist, notifications,
                   customers, txn, pc, req, conc_ret, users, businesses, toolkit, recorded_by, loop>>

\* every half hour of the day as text, and a text that is no time
MatchTimes == {TimeStr(m) : m \in HalfHours} \union {"evening"}

MatchPreferences ==
    {<<"morning">>, <<"afternoon">>, <<"evening">>, <<"after 5">>, <<"before noon">>,
     <<"Morning">>, <<"afternoon", "evening">>}

Match == \E slot_time \in MatchTimes, preferences \in MatchPreferences :
             Matches(slot_time, preferences)

NextMatch == Match

SpecMatch == Init /\ [][NextMatch]_vars

\* the bucket of a preference as minutes of the day: morning before 12:00,
\* afternoon in [12:00, 17:00), evening from 17:00 on; 'after 5' from hour 17
\* on and 'before noon' up to hour 11
InBucket(pref, m) ==
    \/ Fold(pref) = "morning" /\ m < 12 * 60
    \/ Fold(pref) = "afternoon" /\ 12 * 60 <= m /\ m < 17 * 60
    \/ Fold(pref) = "evening" /\ m >= 17 * 60
    \/ HasAfter5(pref) /\ m \div 60 >= 17
    \/ HasBeforeNoon(pref) /\ m \div 60 < 12

\* C26: for every slot time HH:MM of the day the matcher answers True
\* exactly when the time lies in the bucket of one of the preferences:
\* morning before 12:00, afternoon in [12:00, 17:00), evening at or after
\* 17:00, 'after 5' for hour >= 17, 'before noon' for hour < 12
C26_BucketsAsStated ==
    (trail.phase = "matched" /\ ParseTime(trail.args.slot_time) >= 0) =>
        (ret.ok <=> \E pref \in Elems(trail.args.preferences) :
                        InBucket(pref, ParseTime(trail.args.slot_time)))

----------------------------------------------------------------------------
(* check_availability run loop by loop: one step per iteration of its
   while current_date <= end_date loop and of the while-loop of
   generate_time_slots, between whole calls of Book, Cancel and Reschedule *)

Running == loop.pc \in {"days", "slots"}

\* a past candidate is skipped without moving on
NextCandidateStuckOnPast(current_time, past) ==
    IF past THEN current_time ELSE current_time + SlotStep

\* current_time += timedelta(minutes=30), on the skip of a past candidate
\* and at the end of the loop body alike
NextCandidate(current_time, past) == current_time + SlotStep

\* the call of generate_time_slots for the staff member at index `staff` up
\* to its while-loop: the window is set, or replace(hour=...) raises
EnterSlots(l, staff) ==
    LET business_hours == get_business_hours_for_day(config, DayName(l.current_date))
        pref == parse_time_preference(l.args.time_preference)
        open_time == ParseTime(business_hours[1])
        close_time == ParseTime(business_hours[2])
        start_hour == Max(open_time \div 60, pref[1])
        end_hour == Min(close_time \div 60, pref[2])
    IN  IF open_time < 0 \/ close_time < 0 \/ start_hour > 23 \/ end_hour > 23 \/ end_hour < 0
        THEN [l EXCEPT !.pc = "raised"]
        ELSE [l EXCEPT !.pc = "slots", !.staff = staff,
                       !.current_time = start_hour * 60, !.end_time = end_hour * 60]

\* check_availability up to its while-loop
CheckBegin(business_id, service_id, date_range, time_preference, staff_id) ==
    /\ loop.pc = "idle"
    /\ loop' = [NotRunning EXCEPT
                    !.pc = "days",
                    !.args = CheckArgs(business_id, service_id, date_range,
                                       time_preference, staff_id),
                    !.current_date = parse_date_range(date_range, now)[1],
                    !.end_date = parse_date_range(date_range, now)[2]]
    /\ UNCHANGED <<appointments, now, config, ret, trail, matcher_calls, pc, req, conc_ret,
                   waitlist, notifications, customers, txn, users, businesses, toolkit,
                   recorded_by>>

\* one test of `while current_date <= end_date`: the call returns its first
\* SlotLimit slots, or a closed day is passed, or the first staff member's
\* generate_time_slots begins
DayIteration ==
    /\ loop.pc = "days"
    /\ loop' = IF loop.current_date > loop.end_date
               THEN [loop EXCEPT !.pc = "returned",
                                 !.all_slots = SubSeq(loop.all_slots, 1,
                                                      Min(Len(loop.all_slots), SlotLimit))]
               ELSE IF get_business_hours_for_day(config, DayName(loop.current_date)) = <<>>
                    THEN [loop EXCEPT !.current_date = loop.current_date + 1]
                    ELSE EnterSlots(loop, 1)
    /\ UNCHANGED <<appointments, now, config, ret, trail, matcher_calls, pc, req, conc_ret,
                   waitlist, notifications, customers, txn, users, businesses, toolkit,
                   recorded_by>>

\* one test of `while current_time + duration <= end_time`: the next staff
\* member's call or the next day begins, or one candidate is skipped as
\* past, found taken, or appended
SlotIteration ==
    LET staff_ids == AvailableStaff(loop.args.business_id, loop.args.service_id,
                                    loop.args.staff_id)
        duration == ServiceDuration(config, loop.args.service_id)
        range == parse_date_range(loop.args.date_range, now)
        booked == BookedOn(ExistingAppts(appointments, loop.args.business_id,
                                         range[1], range[2]),
                           DateStr(loop.current_date))
        past == loop.current_date = Today(now) /\ loop.current_time <= TimeOfDay(now)
        c == ConflictScan(booked, 1, loop.current_time, loop.current_time + duration,
                          staff_ids[loop.staff])
    IN  /\ loop.pc = "slots"
        /\ loop' = IF loop.current_time + duration > loop.end_time
                   THEN IF loop.staff < Len(staff_ids)
                        THEN EnterSlots(loop, loop.staff + 1)
                        ELSE [loop EXCEPT !.pc = "days",
                                          !.current_date = loop.current_date + 1]
                   ELSE IF past
                        THEN [loop EXCEPT !.current_time = NextCandidate(loop.current_time, TRUE)]
                   ELSE IF c = "raise" THEN [loop EXCEPT !.pc = "raised"]
                   ELSE IF c = "taken"
                        THEN [loop EXCEPT !.current_time = NextCandidate(loop.current_time, FALSE)]
                   ELSE [loop EXCEPT
                            !.current_time = NextCandidate(loop.current_time, FALSE),
                            !.all_slots = Append(loop.all_slots,
                                                 Slot(loop.current_date, loop.current_time,
                                                      staff_ids[loop.staff], duration))]
        /\ UNCHANGED <<appointments, now, config, ret, trail, matcher_calls, pc, req, conc_ret,
                       waitlist, notifications, customers, txn, users, businesses, toolkit,
                       recorded_by>>

\* the call is over: its frame, with the slots or the exception, is gone
LoopReturn ==
    /\ loop.pc \in {"returned", "raised"}
    /\ loop' = NotRunning
    /\ UNCHANGED <<appointments, now, config, ret, trail, matcher_calls, pc, req, conc_ret,
                   waitlist, notifications, customers, txn, users, businesses, toolkit,
                   recorded_by>>

\* <<business_id, date_range, time_preference, staff_id>>: one day, eight
\* days, a window that starts at hour 24, a business without staff, a range
\* that ends before it starts
LoopInputs ==
    {<<"b1", <<"today">>, NULL, NULL>>,
     <<"b1", <<"this week">>, "morning", "s1">>,
     <<"b1", <<"2025-01-06", "2025-01-07">>, "after 24", "s1">>,
     <<"b2", <<"next week">>, NULL, NULL>>,
     <<"b1", <<"2025-01-07", "2025-01-06">>, NULL, NULL>>}

LoopCheck ==
    \E i \in LoopInputs : CheckBegin(i[1], "haircut", i[2], i[3], i[4])

\* the slot ids booked between the checks: day 0 at 10:00, day 1 at 09:00
LoopSlotIds == {SlotId(0, 600, "s1"), SlotId(1, 540, "s1")}

LoopBook ==
    /\ loop.pc = "idle"
    /\ \E slot_id \in LoopSlotIds : book_appointment("b1", "haircut", slot_id, "p1")

LoopCancel == loop.pc = "idle" /\ cancel_appointment("b1", "p1", 0)

LoopReschedule ==
    loop.pc = "idle" /\ reschedule_appointment("b1", 1, SlotId(1, 600, "s1"))

\* the clock moves between the calls
LoopTick == loop.pc = "idle" /\ Tick

InitLoop == InitWith({NoDurationConfig, WorkWeekConfig})

NextLoop ==
    LoopCheck \/ DayIteration \/ SlotIteration \/ LoopReturn
        \/ LoopBook \/ LoopCancel \/ LoopReschedule \/ LoopTick

SpecLoop == InitLoop /\ [][NextLoop]_vars

\* the interpreter goes on executing a call it has begun
SpecLoopFair == SpecLoop /\ WF_vars(DayIteration) /\ WF_vars(SlotIteration)

\* the loops, step by step, end with what the call computes as a whole
LoopAgreesWithCall ==
    loop.pc \in {"returned", "raised"} =>
        LET whole == check_availability(appointments, now, config, loop.args.business_id,
                                        loop.args.service_id, loop.args.date_range,
                                        loop.args.time_preference, loop.args.staff_id)
        IN  IF loop.pc = "raised" THEN whole.raised
            ELSE ~whole.raised /\ whole.slots = loop.all_slots

\* C27: every check_availability call that has begun reaches its return or
\* raises, whatever the date range, the duration (0 included) and the
\* business hours: the loop over the days and the loop over the 30-minute
\* candidates end; Book, Cancel and Reschedule run in between as whole calls
C27_CheckTerminates == Running ~> (loop.pc \in {"returned", "raised"})

\* a call under the configuration whose service lasts 0 minutes has gone
\* through the candidates of a day and returned
C27_Witness ==
    /\ loop.pc = "returned"
    /\ ServiceDuration(config, loop.args.service_id) = 0
    /\ loop.all_slots # <<>>
    /\ appointments # <<>>
    /\ now > StartOfClock

----------------------------------------------------------------------------
(* Chat: the messages of two sessions of business b1, handled one at a
   time by send_message with the one toolkit the agent cache holds for the
   business.  A message may carry a [slot:...] tag; the agent run then
   calls no tool or one of check_availability_tool, identify_customer_tool
   and book_appointment_tool. *)

Sessions == {"A", "B"}

\* the phone the customer of a session gives
PhoneOf(session) == IF session = "A" THEN "p1" ELSE "p2"

\* extract_slot_id and 'toolkit.selected_slot_id = slot_id'; <<>> is a
\* message without a tag
TagStored(tk, slot_id) ==
    IF slot_id = <<>> THEN tk ELSE [tk EXCEPT !.selected_slot_id = slot_id]

TagRecorded(rec, session, slot_id) ==
    IF slot_id = <<>> THEN rec ELSE [rec EXCEPT !.selected_slot_id = session]

\* a message whose agent run calls no tool that touches the booking state
Say(session, slot_id) ==
    /\ toolkit' = TagStored(toolkit, slot_id)
    /\ recorded_by' = TagRecorded(recorded_by, session, slot_id)
    /\ UNCHANGED <<appointments, now, config, ret, trail, matcher_calls, pc, req, conc_ret,
                   waitlist, notifications, customers, txn, users, businesses, loop>>

\* check_availability_tool(service_id, date_range='tomorrow'): the service
\* is stored when slots come back; an exception ends the agent run
CheckTool(session, slot_id, service_id) ==
    LET result == check_availability(appointments, now, config, "b1", service_id,
                                     <<"tomorrow">>, NULL, NULL)
    IN  /\ \E stored \in {~result.raised /\ result.slots # <<>>} :
               /\ toolkit' = IF stored
                             THEN [TagStored(toolkit, slot_id) EXCEPT
                                       !.selected_service_id = service_id]
                             ELSE TagStored(toolkit, slot_id)
               /\ recorded_by' = IF stored
                                 THEN [TagRecorded(recorded_by, session, slot_id) EXCEPT
                                           !.selected_service_id = session]
                                 ELSE TagRecorded(recorded_by, session, slot_id)
        /\ UNCHANGED <<appointments, now, config, ret, trail, matcher_calls, pc, req,
                       conc_ret, waitlist, notifications, customers, txn, users,
                       businesses, loop>>

\* SELECT * FROM customers WHERE business_id = ? AND phone = ?: the id of
\* the first row, 0 for none
CustomerIdOf(store, business_id, phone) ==
    IF PhoneKnown(store, business_id, phone)
    THEN (CHOOSE i \in 1..Len(store) :
              /\ store[i].business_id = business_id /\ store[i].phone = phone
              /\ \A j \in 1..(i - 1) :
                     ~(store[j].business_id = business_id /\ store[j].phone = phone))
    ELSE 0

\* identify_customer_tool(phone): a returning customer's id is stored
IdentifyTool(session, slot_id) ==
    LET customer_id == CustomerIdOf(customers, "b1", PhoneOf(session))
    IN  /\ toolkit' = IF customer_id # 0
                      THEN [TagStored(toolkit, slot_id) EXCEPT
                                !.current_customer_id = customer_id]
                      ELSE TagStored(toolkit, slot_id)
        /\ recorded_by' = IF customer_id # 0
                          THEN [TagRecorded(recorded_by, session, slot_id) EXCEPT
                                    !.current_customer_id = session]
                          ELSE TagRecorded(recorded_by, session, slot_id)
        /\ UNCHANGED <<appointments, now, config, ret, trail, matcher_calls, pc, req,
                       conc_ret, waitlist, notifications, customers, txn, users,
                       businesses, loop>>

\* book_appointment_tool(customer_name, customer_phone) without a slot_id of
\* its own: it books the stored service at the stored slot for the stored
\* customer id and clears service and slot when the booking succeeds
BookTool(session, slot_id) ==
    LET tk == TagStored(toolkit, slot_id)
        rec == TagRecorded(recorded_by, session, slot_id)
    IN  IF tk.selected_service_id = NULL
        THEN /\ ret' = Ret("book", "Please select a service and time first.", FALSE, 0, Slots(<<>>))
             /\ toolkit' = tk
             /\ recorded_by' = rec
             /\ UNCHANGED <<appointments, now, config, trail, matcher_calls, pc, req,
                            conc_ret, waitlist, notifications, customers, txn, users,
                            businesses, loop>>
        ELSE IF tk.selected_slot_id = <<>>
        THEN /\ ret' = Ret("book", "Please select a time slot first before booking.", FALSE, 0, Slots(<<>>))
             /\ toolkit' = tk
             /\ recorded_by' = rec
             /\ UNCHANGED <<appointments, now, config, trail, matcher_calls, pc, req,
                            conc_ret, waitlist, notifications, customers, txn, users,
                            businesses, loop>>
        ELSE /\ BookCall("b1", tk.selected_service_id, tk.selected_slot_id,
                         PhoneOf(session), tk.current_customer_id)
             /\ toolkit' = IF ret'.error = ""
                           THEN [tk EXCEPT !.selected_service_id = NULL,
                                           !.selected_slot_id = <<>>]
                           ELSE tk
             /\ recorded_by' = IF ret'.error = ""
                               THEN [rec EXCEPT !.selected_service_id = "none",
                                                !.selected_slot_id = "none"]
                               ELSE rec
             /\ UNCHANGED <<now, config, matcher_calls, pc, req, conc_ret, waitlist,
                            notifications, txn, users, businesses, loop>>

\* the tags of the messages: none, or the slot of day 1 at 09:00
ChatTags == {<<>>, SlotId(1, 540, "s1")}

Chat == \E session \in Sessions, slot_id \in ChatTags : Say(session, slot_id)

ChatCheck ==
    \E session \in Sessions, slot_id \in ChatTags : CheckTool(session, slot_id, "haircut")

ChatIdentify == \E session \in Sessions, slot_id \in ChatTags : IdentifyTool(session, slot_id)

ChatBook == \E session \in Sessions, slot_id \in ChatTags : BookTool(session, slot_id)

\* POST /customers for the customers of the two sessions
ChatCustomer == \E session \in Sessions : create_customer("b1", PhoneOf(session))

NextChat == Chat \/ ChatCheck \/ ChatIdentify \/ ChatBook \/ ChatCustomer

SpecChat == Init /\ [][NextChat]_vars

\* what book_appointment_tool hands to book_appointment in a message of
\* `session` was recorded by that session
UsesOnlyOwn(session, slot_id) ==
    LET tk == TagStored(toolkit, slot_id)
        rec == TagRecorded(recorded_by, session, slot_id)
    IN  (tk.selected_service_id # NULL /\ tk.selected_slot_id # <<>>) =>
            /\ rec.selected_service_id = session
            /\ rec.selected_slot_id = session
            /\ tk.current_customer_id # 0 => rec.current_customer_id = session

\* C28: the booking state is isolated per chat session: the service, the
\* slot id and the customer id that a book tool call of a session's message
\* uses were each recorded while handling a message of that same session,
\* whatever the order of the two sessions' messages
C28_SessionsIsolated ==
    [][\A session \in Sessions, slot_id \in ChatTags :
           BookTool(session, slot_id) => UsesOnlyOwn(session, slot_id)]_vars

----------------------------------------------------------------------------
(* Joining the waitlist through the add_to_waitlist tool, while entries
   are notified and answered *)

\* SELECT id FROM waitlist WHERE business_id = ? AND service_id = ? AND
\* customer_contact = ? AND status = 'waiting'
WaitingFor(store, business_id, service_id, customer_contact) ==
    {i \in 1..Len(store) :
        /\ store[i].business_id = business_id
        /\ store[i].service_id = service_id
        /\ store[i].customer_contact = customer_contact
        /\ store[i].status = "waiting"}

\* add_to_waitlist: the preferences of a waiting entry of the contact are
\* replaced (fetchone() of a SELECT without ORDER BY: any of them), or a new
\* entry is inserted; the id of the entry is returned
add_to_waitlist(business_id, service_id, customer_contact, preferred_dates, preferred_times) ==
    LET existing == WaitingFor(waitlist, business_id, service_id, customer_contact)
    IN  /\ IF existing # {}
           THEN \E i \in existing :
                    /\ waitlist' = [waitlist EXCEPT ![i].preferred_dates = preferred_dates,
                                                    ![i].preferred_times = preferred_times]
                    /\ ret' = [WaitRet("add_to_waitlist", TRUE, <<>>) EXCEPT
                                   !.id = waitlist[i].id]
           ELSE /\ Len(waitlist) < MaxEntries
                /\ waitlist' = Append(waitlist,
                       WaitlistRow(Len(waitlist) + 1, business_id, service_id,
                                   customer_contact, preferred_dates, preferred_times))
                /\ ret' = [WaitRet("add_to_waitlist", TRUE, <<>>) EXCEPT
                               !.id = Len(waitlist) + 1]
        /\ trail' = NoTrail
        /\ UNCHANGED <<appointments, now, config, matcher_calls, customers, txn,
                       notifications, pc, req, conc_ret, users, businesses, toolkit,
                       recorded_by, loop>>

\* <<customer_contact, preferred_dates, preferred_times>>
AddInputs ==
    {<<"p1", <<>>, <<>>>>,
     <<"p1", <<"2025-01-06">>, <<"morning">>>>,
     <<"p2", <<>>, <<>>>>}

Add == \E i \in AddInputs : add_to_waitlist("b1", "haircut", i[1], i[2], i[3])

NextAdd == Add \/ Notify \/ Accept \/ Decline

SpecAdd == Init /\ [][NextAdd]_vars

\* C29: after any sequence of add_to_waitlist, mark_notified, mark_declined
\* and mark_booked calls, a business, service and customer contact have at
\* most one waitlist entry with status waiting
C29_OneWaitingPerContact ==
    \A i, j \in 1..Len(waitlist) :
        (/\ waitlist[i].status = "waiting" /\ waitlist[j].status = "waiting"
         /\ waitlist[i].business_id = waitlist[j].business_id
         /\ waitlist[i].service_id = waitlist[j].service_id
         /\ waitlist[i].customer_contact = waitlist[j].customer_contact) => i = j

\* UPDATE waitlist ... WHERE id = ? matches a row
EntryExists(waitlist_id) == \E i \in 1..Len(waitlist) : waitlist[i].id = waitlist_id

\* the bool returned tells whether the entry was changed
BoolTellsChange(waitlist_id) ==
    /\ ~ret'.ok => (waitlist' = waitlist /\ notifications' = notifications)
    /\ ret'.ok => EntryExists(waitlist_id)

\* C30: when mark_notified, mark_booked or mark_declined returns False, the
\* status of the entry and every notification record are as before the
\* call, and it returns True only if an entry with the given id exists and
\* was updated
C30_BoolTellsWhetherChanged ==
    [][\A waitlist_id \in 1..MaxEntries :
           /\ \A cancelled_appointment_id \in 0..1 :
                  mark_notified(waitlist_id, cancelled_appointment_id)
                      => BoolTellsChange(waitlist_id)
           /\ mark_booked(waitlist_id) => BoolTellsChange(waitlist_id)
           /\ mark_declined(waitlist_id) => BoolTellsChange(waitlist_id)]_vars

====
